---- MODULE Spec2Model ----
(***************************************************************************)
(* A model of the concurrent orchestration core of the adversarial fact    *)
(* checker: the arbiter's response parsing (app/agents/arbiter.py), the    *)
(* single-claim pipeline and the batch scheduler (app/pipeline.py) and the *)
(* gated backend searches (app/agents/web_search.py).                      *)
(*                                                                         *)
(* Several specifications share the module:                                *)
(*   Spec         the batch scheduler running the per-claim pipelines      *)
(*   SpecArbiter  run_arbiter applied to one model response                *)
(*   SpecSearch   backend searches under the semaphore and the thread pool *)
(*   SpecAgent    run_web_search_agent on one claim                        *)
(*   SpecLlm      call_llm on one prompt                                   *)
(*   SpecEntry    claim extraction and the Run Analysis handler            *)
(*   SpecLoops    the module globals over successive event loops           *)
(*   SpecFair     Spec with the event loop's fairness                      *)
(*   SpecPermits  _run_search_async with its permits and its clock         *)
(*   SpecClients  concurrent Azure invocations in one event loop           *)
(* Each leaves the variables of the others at their idle value.            *)
(*                                                                         *)
(* Texts are sequences: a text the code inspects character by character is *)
(* a sequence of one-character strings, any other text a sequence of       *)
(* tokens, and the empty text is << >>.                                    *)
(***************************************************************************)
EXTENDS Integers, Sequences, FiniteSets, TLC

VARIABLES
    \* ---- batch_process_claims and its pipelines (Spec)
    max_workers,      \* the max_workers argument
    total,            \* len(claims)
    semaphore,        \* asyncio.Semaphore(max_workers)._value
    pc,               \* per claim: where its _bounded_process task is: queued,
                      \* stage1..stage3, done (it returned, or on_progress
                      \* raised out of it), raised (process_single_claim
                      \* raised), cancelled
    sub,              \* per claim: the two tasks of the stage in progress
    analysis,         \* per claim: the ClaimAnalysis being filled in
    rec,              \* per claim: the record process_single_claim returned
    failedAt,         \* per claim: the stage whose exception was caught (0: none)
    arbOut,           \* per claim: the tuple run_arbiter returned (<< >>: none)
    stageArgs,        \* per claim: the texts the calls of the stage in progress
                      \* were made with, besides the claim and the report
    completed_count,  \* the nonlocal completed_count
    gather,           \* the outer gather future: pending, result, exception, cancelled
    batchPc,          \* batch_process_claims: running or returned
    batchExit,        \* how it left the try block: none, normal, timeout, error
    doneAtTimeout,    \* completed_count when the batch timeout fired (-1: it did not)
    results,          \* the list batch_process_claims returns
    progress,         \* the on_progress calls made so far, as their arguments
    \* ---- run_arbiter on one response (SpecArbiter)
    arbResponse,      \* the text call_llm returned
    arbPc,            \* called or returned
    arbReturn,        \* the tuple run_arbiter returned
    \* ---- gated searches (SpecSearch)
    search_semaphore, \* _search_semaphore._value, -1 while it is None
    searchPc,         \* per search: where its _run_search_async call is
    job,              \* per search: its callable in _search_pool
    searchResult,     \* per search: what _run_search_async returned
    gatewayCall,      \* per call_llm of the two tasks of one stage: awaiting
                      \* under its wait_for, or what it returned
    \* ---- run_web_search_agent on one claim (SpecAgent)
    agClaim,          \* the claim argument
    agPc,             \* idle, querygen, searching, returned
    queryReply,       \* how the call_llm deriving the query ended
    search_query,     \* the query derived from the claim
    query_candidates, \* the queries searched for
    results_list,     \* per dispatched task: pending, or the tuple it returned
    backend,          \* per dispatched task: how its backend call ended
    outOfOrder,       \* some task finished before one dispatched earlier
    agReturn,         \* the text run_web_search_agent returned
    \* ---- call_llm, one invocation (SpecLlm)
    provider,         \* the provider argument
    config,           \* the config argument: per key its value, or Absent
    _azure_client,    \* the cached client (NoClient while it is None)
    _azure_client_key,     \* the cache key it was built for
    _azure_client_loop_id, \* the event loop it was built under
    clientAtCall,     \* the three cache variables when call_llm was invoked
    llmPc,            \* idle, called, responses, chat, gemini, returned, raised
    attempts,         \* the backend calls made so far, with their outcome
    elapsed,          \* seconds since call_llm was invoked
    llmReturn,        \* the text call_llm returned
    \* ---- the Run Analysis handler of main.py (SpecEntry)
    entryPc,          \* idle, extracting, extracted, ran, reported
    extResponse,      \* the text call_llm returned to the claim extractor
    extracted,        \* what run_factual_claim_extractor returned
    batchInvoked,     \* batch_process_claims was entered
    _results_collector,    \* the records on_progress has collected
    claims,           \* the handler's claims variable
    all_results,      \* the handler's all_results variable
    pipeline_err,     \* the exception the handler caught, if any
    shown,            \* the status the handler displays, with its output
    analysis_results, \* st.session_state.analysis_results
    \* ---- the module globals over successive event loops (SpecLoops)
    running_loop,     \* the event loop running: the n-th one asyncio.run made
    loop_id,          \* id(asyncio.get_running_loop())
    _search_semaphore_loop_id,  \* the loop id recorded with _search_semaphore
    semObject,        \* the semaphore object _search_semaphore refers to: the
                      \* n-th one created, and the loop it was created under
    clientObject,     \* the same for _azure_client, with the settings it was
                      \* constructed from
    permitsOut,       \* permits of _search_semaphore acquired and not released
    lastCall,         \* the latest call of one of the two getters
    invocations,      \* per concurrent _call_azure (SpecClients): its config,
                      \* where it is, its local client and the requests sent
    \* ---- _run_search_async with its clock and its cancellation (SpecPermits)
    waiters,          \* _search_semaphore._waiters: the calls with a future in
                      \* the queue, oldest first
    clock             \* per call: seconds since it began to wait for a permit,
                      \* or since its wait_for started

batchVars == <<max_workers, total, semaphore, pc, sub, analysis, rec, failedAt,
               arbOut, stageArgs, completed_count, gather, batchPc, batchExit,
               doneAtTimeout, results, progress>>
arbVars == <<arbResponse, arbPc, arbReturn>>
searchVars == <<search_semaphore, searchPc, job, searchResult, gatewayCall>>
agentVars == <<agClaim, agPc, queryReply, search_query, query_candidates, results_list,
               backend, outOfOrder, agReturn>>
llmVars == <<provider, config, _azure_client, _azure_client_key,
             _azure_client_loop_id, clientAtCall, llmPc, attempts, elapsed,
             llmReturn>>
entryVars == <<entryPc, extResponse, extracted, batchInvoked, _results_collector,
               claims, all_results,
               pipeline_err, shown, analysis_results>>
loopVars == <<running_loop, loop_id, _search_semaphore_loop_id, semObject,
              clientObject, permitsOut, lastCall, invocations>>
permitVars == <<waiters, clock>>
restVars == <<agentVars, llmVars, entryVars, loopVars, permitVars>>
vars == <<batchVars, arbVars, searchVars, restVars>>

\* ------------------------------------------------------------------ bounds
MaxClaims == 3
MaxWorkers == 2
NumSearches == 5
MaxOverlap == 1
DelayStep == 10
MaxExtracted == 2
MaxLoops == 3
MaxCalls == 4
MaxInvocations == 2

\* ------------------------------------------------------- program constants
_MAX_CONCURRENT_SEARCHES == 4
SEARCH_POOL_WORKERS == 6
SEARCH_TIMEOUT_SECONDS == 20
DEFAULT_SCORE == 6

\* ================================================================= arbiter
\* JSON values as json.loads yields them, tagged by Python type.
Absent == [t |-> "absent"]
JNull == [t |-> "null"]
JList == [t |-> "list"]
JInf == [t |-> "inf"]
JInt(n) == [t |-> "int", i |-> n]
JFloat(n) == [t |-> "float", tenths |-> n]
JBool(b) == [t |-> "bool", b |-> b]
JStr(s) == [t |-> "str", s |-> s]

Digits == <<"0", "1", "2", "3", "4", "5", "6", "7", "8", "9">>
IsDigit(c) == \E d \in 1..10 : Digits[d] = c
DigitVal(c) == (CHOOSE d \in 1..10 : Digits[d] = c) - 1

\* str.strip(): leading and trailing whitespace removed.
RECURSIVE LStrip(_)
LStrip(s) == IF s # << >> /\ Head(s) = " " THEN LStrip(Tail(s)) ELSE s
RECURSIVE RStrip(_)
RStrip(s) ==
    IF s # << >> /\ s[Len(s)] = " " THEN RStrip(SubSeq(s, 1, Len(s) - 1)) ELSE s
Strip(s) == RStrip(LStrip(s))

\* str.upper() on the letters the model's texts use.
UpperChar(c) ==
    CASE c = "a" -> "A" [] c = "b" -> "B" [] c = "c" -> "C" [] c = "d" -> "D"
      [] c = "e" -> "E" [] c = "f" -> "F" [] c = "g" -> "G"
      [] c = "n" -> "N" [] c = "o" -> "O" [] c = "r" -> "R" [] c = "u" -> "U"
      [] OTHER -> c
Upper(s) == [k \in 1..Len(s) |-> UpperChar(s[k])]

RECURSIVE DigitsValue(_)
DigitsValue(s) ==
    IF s = << >> THEN 0
    ELSE 10 * DigitsValue(SubSeq(s, 1, Len(s) - 1)) + DigitVal(s[Len(s)])

AllDigits(s) == s # << >> /\ \A k \in 1..Len(s) : IsDigit(s[k])

\* int(str): surrounding whitespace ignored, an optional sign, then digits.
StrIsInt(s) ==
    LET b == Strip(s)
    IN  IF b # << >> /\ Head(b) \in {"-", "+"} THEN AllDigits(Tail(b))
        ELSE AllDigits(b)
StrToInt(s) ==
    LET b == Strip(s)
    IN  IF Head(b) = "-" THEN 0 - DigitsValue(Tail(b))
        ELSE IF Head(b) = "+" THEN DigitsValue(Tail(b))
        ELSE DigitsValue(b)

\* int(x) raises TypeError for None and containers, ValueError for a text that
\* is no integer literal, OverflowError for an infinite float.
IntRaises(v) ==
    \/ v.t \in {"null", "list", "inf"}
    \/ v.t = "str" /\ ~StrIsInt(v.s)

\* int(x) where it does not raise; a float is truncated toward zero.
IntOf(v) ==
    CASE v.t = "int" -> v.i
      [] v.t = "bool" -> IF v.b THEN 1 ELSE 0
      [] v.t = "float" ->
            IF v.tenths >= 0 THEN v.tenths \div 10 ELSE 0 - ((0 - v.tenths) \div 10)
      [] v.t = "str" -> StrToInt(v.s)

RECURSIVE NatToStr(_)
NatToStr(n) ==
    IF n < 10 THEN <<Digits[n + 1]>> ELSE NatToStr(n \div 10) \o <<Digits[(n % 10) + 1]>>

\* str(x)
StrOf(v) ==
    CASE v.t = "str" -> v.s
      [] v.t = "null" -> <<"N", "o", "n", "e">>
      [] v.t = "bool" ->
            IF v.b THEN <<"T", "r", "u", "e">> ELSE <<"F", "a", "l", "s", "e">>
      [] v.t = "int" -> IF v.i < 0 THEN <<"-">> \o NatToStr(0 - v.i) ELSE NatToStr(v.i)
      [] v.t = "list" -> <<"[", "]">>

\* data.get(key, default) on a parsed object
DictGet(obj, key, default) == IF obj[key] = Absent THEN default ELSE obj[key]

\* A response text is a sequence of segments: Markdown code fences (three
\* backquotes, with or without the word json) and payloads.
FenceJson == [k |-> "fence", f |-> "fence-json"]
Fence == [k |-> "fence", f |-> "fence-plain"]
Garbage == [k |-> "garbage"]
Value(v) == [k |-> "value", v |-> v]
Object(o) == [k |-> "object", o |-> o]

\* response.replace(<json fence>, "").replace(<fence>, "").strip()
CleanResponse(response) == SelectSeq(response, LAMBDA seg : seg.k # "fence")

\* json.loads raises on the empty text, on text that is not JSON and on two
\* documents in a row.
LoadsRaises(clean) == Len(clean) # 1 \/ clean[1].k = "garbage"
Loads(clean) == clean[1]

ReliabilityLetters == {<<"A">>, <<"B">>, <<"C">>, <<"D">>, <<"E">>, <<"F">>}
ParseErrorReturn == <<DEFAULT_SCORE, <<"Error parsing Arbiter response">>, <<"F">>, << >>>>

\* if score < 1 or score > 6: score = 6
ClampScoreMutant(score) == score
ClampScore(score) == IF score < 1 \/ score > 6 THEN DEFAULT_SCORE ELSE score

\* if reliability not in ("A", ..., "F"): reliability = "F"
ClampReliability(r) == IF r \notin ReliabilityLetters THEN <<"F">> ELSE r

\* The statements of the try block that can raise: json.loads, data.get on a
\* value that is no dict (AttributeError), int().
ArbiterTryRaisesMutant(clean) ==
    \/ LoadsRaises(clean)
    \/ /\ Loads(clean).k = "object"
       /\ IntRaises(DictGet(Loads(clean).o, "score", JInt(DEFAULT_SCORE)))
ArbiterTryRaises(clean) ==
    \/ LoadsRaises(clean)
    \/ Loads(clean).k # "object"
    \/ IntRaises(DictGet(Loads(clean).o, "score", JInt(DEFAULT_SCORE)))

EmptyObject ==
    [score |-> Absent, justification |-> Absent,
     source_reliability_score |-> Absent, source_reliability_justification |-> Absent]

\* run_arbiter from the response of call_llm on: the 4-tuple it returns.
RunArbiter(response) ==
    LET clean == CleanResponse(response)
    IN  IF ArbiterTryRaises(clean) THEN ParseErrorReturn
        ELSE LET data == IF Loads(clean).k = "object" THEN Loads(clean).o ELSE EmptyObject
                 score == ClampScore(IntOf(DictGet(data, "score", JInt(DEFAULT_SCORE))))
                 justification == DictGet(data, "justification", JStr(<<"Parse Error">>)).s
                 reliability ==
                     ClampReliability(
                         Strip(Upper(StrOf(DictGet(data, "source_reliability_score",
                                                   JStr(<<"F">>))))))
                 reliability_justification ==
                     DictGet(data, "source_reliability_justification", JStr(<< >>)).s
             IN  <<score, justification, reliability, reliability_justification>>

\* ---- the responses SpecArbiter draws from
ScoreValues ==
    {Absent, JNull, JList, JInf, JBool(TRUE)}
        \cup {JInt(n) : n \in {-1, 0, 1, 3, 6, 7}}
        \cup {JFloat(n) : n \in {-5, 5, 25, 69, 70}}
        \cup {JStr(s) : s \in {<<"4">>, <<" ", "5", " ">>, <<"-", "1">>, <<"1", "2">>,
                               <<"h", "i">>, << >>, <<"2", ".", "5">>}}
ReliabilityValues ==
    {Absent, JNull, JInt(1), JBool(FALSE)}
        \cup {JStr(s) : s \in {<<"A">>, <<"C">>, <<"F">>, <<"b">>, <<" ", "e", " ">>,
                               <<"G">>, <<"A", "B">>, << >>}}
JustificationValues == {Absent, JStr(<<"plausible">>)}
Objects ==
    [score : ScoreValues, justification : JustificationValues,
     source_reliability_score : ReliabilityValues,
     source_reliability_justification : {Absent, JStr(<<"reputable">>)}]
Payloads ==
    {Garbage, Value(JNull), Value(JList), Value(JInt(3)), Value(JStr(<<"n", "o">>))}
        \cup {Object(o) : o \in Objects}
Responses ==
    {<<p>> : p \in Payloads} \cup {<<FenceJson, p, Fence>> : p \in Payloads}
        \cup {<< >>, <<FenceJson, Fence>>, <<Garbage, Object(EmptyObject)>>}

ArbInit ==
    /\ arbResponse \in Responses
    /\ arbPc = "called"
    /\ arbReturn = << >>

\* response = await call_llm(...); ...; return score, justification, ...
ArbiterReturn ==
    /\ arbPc = "called"
    /\ arbPc' = "returned"
    /\ arbReturn' = RunArbiter(arbResponse)
    /\ UNCHANGED <<arbResponse, batchVars, searchVars, restVars>>

ArbIdle == arbResponse = << >> /\ arbPc = "idle" /\ arbReturn = << >>

\* The variables of the other specifications, at rest.
BatchIdle ==
    /\ max_workers = 0 /\ total = 0 /\ semaphore = 0
    /\ pc = << >> /\ sub = << >> /\ analysis = << >> /\ rec = << >>
    /\ failedAt = << >> /\ arbOut = << >> /\ stageArgs = << >>
    /\ completed_count = 0 /\ gather = "none" /\ batchPc = "idle"
    /\ batchExit = "none" /\ doneAtTimeout = -1 /\ results = << >>
    /\ progress = << >>
SearchIdle ==
    /\ search_semaphore = -1 /\ searchPc = << >> /\ job = << >>
    /\ searchResult = << >> /\ gatewayCall = << >>

AgentIdle ==
    /\ agClaim = << >> /\ agPc = "idle" /\ queryReply = << >>
    /\ search_query = << >>
    /\ query_candidates = << >> /\ results_list = << >> /\ backend = << >>
    /\ outOfOrder = FALSE /\ agReturn = << >>
LlmIdle ==
    /\ provider = << >> /\ config = << >> /\ _azure_client = << >>
    /\ _azure_client_key = << >> /\ _azure_client_loop_id = << >>
    /\ clientAtCall = << >> /\ llmPc = "idle" /\ attempts = << >>
    /\ elapsed = 0 /\ llmReturn = << >>
EntryIdle ==
    /\ entryPc = "idle" /\ extResponse = << >> /\ extracted = << >>
    /\ batchInvoked = FALSE /\ _results_collector = << >>
    /\ claims = << >> /\ all_results = << >>
    /\ pipeline_err = << >> /\ shown = << >> /\ analysis_results = << >>
LoopIdle ==
    /\ running_loop = 0 /\ loop_id = << >> /\ _search_semaphore_loop_id = << >>
    /\ semObject = << >> /\ clientObject = << >> /\ permitsOut = 0
    /\ lastCall = << >> /\ invocations = << >>
PermitIdle == waiters = << >> /\ clock = << >>
RestIdle == AgentIdle /\ LlmIdle /\ EntryIdle /\ LoopIdle /\ PermitIdle

InitArbiter == ArbInit /\ BatchIdle /\ SearchIdle /\ RestIdle
NextArbiter == ArbiterReturn
SpecArbiter == InitArbiter /\ [][NextArbiter]_vars

\* ---------------------------------------------------- claims on run_arbiter
\* The response is not one JSON object once the fences are removed.
NotAJsonObject(response) ==
    LET payloads == SelectSeq(response, LAMBDA seg : seg.k # "fence")
    IN  Len(payloads) # 1 \/ payloads[1].k # "object"
TheObject(response) == SelectSeq(response, LAMBDA seg : seg.k = "object")[1].o

\* C8: for every model response text, valid or malformed, the score
\* run_arbiter returns is in 1..6 and the source reliability in A..F.
C8_ScoreDomain ==
    arbPc = "returned" =>
        /\ arbReturn[1] \in 1..6
        /\ arbReturn[3] \in {<<"A">>, <<"B">>, <<"C">>, <<"D">>, <<"E">>, <<"F">>}

\* run_arbiter has returned on an object whose score and reliability are
\* both outside their domains.
C8_Witness ==
    /\ arbPc = "returned"
    /\ ~NotAJsonObject(arbResponse)
    /\ TheObject(arbResponse).score = JInt(7)
    /\ TheObject(arbResponse).source_reliability_score = JStr(<<"G">>)

\* C9: a response that is not a JSON object makes run_arbiter return score 6,
\* reliability F and the justification "Error parsing Arbiter response"; an
\* integer score outside 1..6 is returned as 6 and a reliability text that is
\* no letter A..F (after upper-casing and stripping) as F.
C9_ParseFailureDefaults ==
    arbPc = "returned" =>
        /\ NotAJsonObject(arbResponse) =>
              /\ arbReturn[1] = 6
              /\ arbReturn[2] = <<"Error parsing Arbiter response">>
              /\ arbReturn[3] = <<"F">>
        /\ ~NotAJsonObject(arbResponse) =>
              LET o == TheObject(arbResponse)
              IN  /\ (o.score.t = "int" /\ o.score.i \notin 1..6) => arbReturn[1] = 6
                  /\ (o.source_reliability_score.t = "str"
                        /\ o.source_reliability_score.s
                              \in {<<"G">>, <<"A", "B">>, << >>})
                        => arbReturn[3] = <<"F">>

\* run_arbiter has returned on a response that is valid JSON but no object.
C9_Witness ==
    /\ arbPc = "returned"
    /\ arbResponse = <<Value(JList)>>
    /\ arbReturn[2] = <<"Error parsing Arbiter response">>

\* ====================================================== single-claim pipeline
\* ClaimAnalysis(claim=..., arbiter_score=..., arbiter_justification=...):
\* the other fields take their defaults. model_dump() yields these keys.
ClaimAnalysis(claim, score, justification) ==
    [claim |-> claim, report_evidence |-> << >>, web_evidence |-> << >>,
     devils_advocate_summary |-> << >>, advocate_summary |-> << >>,
     arbiter_score |-> score, arbiter_justification |-> justification]
NoRecord == [claim |-> 0]

\* The text an agent returns is opaque to the orchestration: a token naming
\* the agent and the claim, followed by the evidence the agent was given.
AgentText(agent, claim, given) == <<[agent |-> agent, claim |-> claim]>> \o given

\* The messages of the exceptions a stage can raise.
AgentErrorMessage == <<"agent failed">>
UnpackErrorMessage == <<"too many values to unpack (expected 2)">>

\* The responses call_llm hands the arbiter in the pipeline's runs.
GoodObject ==
    [score |-> JInt(2), justification |-> JStr(<<"plausible">>),
     source_reliability_score |-> JStr(<<"B">>),
     source_reliability_justification |-> JStr(<<"reputable">>)]
PipelineResponses == {<<FenceJson, Object(GoodObject), Fence>>, <<Garbage>>}

\* except Exception as e: ... arbiter_score=6,
\* arbiter_justification=f"Processing Error: {str(e)}"
ErrorRecordMutant(claim, message) == ClaimAnalysis(claim, 6, message)
ErrorRecord(claim, message) == ClaimAnalysis(claim, 6, <<"Processing Error: ">> \o message)

\* The try block spans the three stages: an exception of any of them is caught.
CaughtMutant(stage) == stage # 2
Caught(stage) == stage \in {1, 2, 3}

\* score, justification = <tuple>: binding two names raises ValueError unless
\* the tuple has two elements.
UnpackRaises(tuple, names) == Len(tuple) # names

\* ============================================================ batch scheduler
Claims == 1..total
InStage(p) == p \in {"stage1", "stage2", "stage3"}
Finished(p) == p \in {"done", "raised", "cancelled"}

\* async with semaphore: acquire() takes a permit when _value > 0.
CanAcquireMutant(value) == value >= 0
CanAcquire(value) == value > 0

\* asyncio.gather(*tasks): the results of the tasks in the order of the tasks.
GatherResultCompletionOrderMutant == [k \in 1..Len(progress) |-> progress[k][3]]
GatherResultMutant == SelectSeq([i \in Claims |-> rec[i]], LAMBDA r : r.arbiter_score # 6)
GatherResult == [i \in Claims |-> rec[i]]

NoSub == [a |-> "none", b |-> "none"]

BatchInit ==
    /\ max_workers \in 0..MaxWorkers
    /\ total \in 0..MaxClaims
    /\ semaphore = max_workers
    /\ pc = [i \in Claims |-> "queued"]
    /\ sub = [i \in Claims |-> NoSub]
    /\ analysis = [i \in Claims |-> NoRecord]
    /\ rec = [i \in Claims |-> NoRecord]
    /\ failedAt = [i \in Claims |-> 0]
    /\ arbOut = [i \in Claims |-> << >>]
    /\ stageArgs = [i \in Claims |-> << >>]
    /\ completed_count = 0
    /\ gather = IF total = 0 THEN "result" ELSE "pending"
    /\ batchPc = "running"
    /\ batchExit = "none"
    /\ doneAtTimeout = -1
    /\ results = << >>
    /\ progress = << >>

\* _bounded_process enters async with semaphore and process_single_claim
\* starts Stage 1. Tasks start in input order and waiters are woken first
\* come, first served.
Acquire(i) ==
    /\ pc[i] = "queued"
    /\ \A j \in 1..(i - 1) : pc[j] # "queued"
    /\ CanAcquire(semaphore)
    /\ semaphore' = semaphore - 1
    /\ pc' = [pc EXCEPT ![i] = "stage1"]
    /\ sub' = [sub EXCEPT ![i] = [a |-> "run", b |-> "run"]]
    /\ analysis' = [analysis EXCEPT ![i] = ClaimAnalysis(i, 6, << >>)]
    /\ stageArgs' = [stageArgs EXCEPT ![i] = << >>]
    /\ UNCHANGED <<max_workers, total, rec, failedAt, arbOut, completed_count,
                   gather, batchPc, batchExit, doneAtTimeout, results, progress,
                   arbVars, searchVars, restVars>>

\* on_progress(completed_count, total, result): the arguments of each call,
\* in the order of the calls.
OnProgressMutant(calls, count, n, result) == calls
OnProgressTotalMutant(calls, count, n, result) == Append(calls, <<n, n, result>>)
OnProgress(calls, count, n, result) == Append(calls, <<count, n, result>>)

\* Leaving async with semaphore: release() gives the permit back.
ReleaseMutant(value) == value
Release(value) == value + 1

\* process_single_claim returns `record` (or, were the exception not caught,
\* raises) and its local ClaimAnalysis is gone; _bounded_process leaves the
\* semaphore, counts the completion and calls on_progress, which returns or
\* raises.
Complete(i, record, escaped, cbRaises) ==
    /\ semaphore' = Release(semaphore)
    /\ analysis' = [analysis EXCEPT ![i] = NoRecord]
    /\ stageArgs' = [stageArgs EXCEPT ![i] = << >>]
    /\ IF escaped
       THEN /\ pc' = [pc EXCEPT ![i] = "raised"]
            /\ UNCHANGED <<rec, completed_count, progress>>
            /\ gather' = IF gather = "pending" THEN "exception" ELSE gather
       ELSE /\ rec' = [rec EXCEPT ![i] = record]
            /\ completed_count' = completed_count + 1
            /\ progress' = OnProgress(progress, completed_count + 1, total, record)
            /\ pc' = [pc EXCEPT ![i] = "done"]
            /\ gather' =
                  IF gather # "pending" THEN gather
                  ELSE IF cbRaises THEN "exception"
                  ELSE IF \A j \in Claims \ {i} : pc[j] = "done" THEN "result"
                  ELSE "pending"
    /\ UNCHANGED <<max_workers, total, batchPc, batchExit, doneAtTimeout, results,
                   arbVars, searchVars, restVars>>

\* An exception raised in `stage`: the except clause builds the error record.
Fail(i, stage, message, cbRaises) ==
    /\ failedAt' = [failedAt EXCEPT ![i] = stage]
    /\ Complete(i, ErrorRecord(i, message), ~Caught(stage), cbRaises)

Other(t) == IF t = "a" THEN "b" ELSE "a"
StageNumber(p) == CASE p = "stage1" -> 1 [] p = "stage2" -> 2 [] p = "stage3" -> 3

\* await asyncio.gather(a, b) resumes with the two results once the task that
\* had not returned yet returns, its sibling having returned before.
GatherDoneMutant(sibling) == TRUE
GatherDone(sibling) == sibling = "ok"

\* run_devils_advocate(claim, web_evidence, ...) and run_advocate(claim,
\* web_evidence, ...): both debaters are called with the web evidence.
Stage2Args(a) == a.web_evidence

\* run_arbiter(claim, devils_summary, advocate_summary, ...).
Stage3Args(a) == <<a.devils_advocate_summary, a.advocate_summary>>

\* One of the two gathered tasks of Stage 1 or Stage 2 returns. When its
\* sibling has returned too the gather is complete: the stage's fields are
\* assigned and the next stage starts.
SubTaskReturns(i, t) ==
    /\ pc[i] \in {"stage1", "stage2"}
    /\ sub[i][t] = "run"
    /\ IF ~GatherDone(sub[i][Other(t)])
       THEN /\ sub' = [sub EXCEPT ![i][t] = "ok"]
            /\ UNCHANGED <<pc, analysis, stageArgs>>
       ELSE IF pc[i] = "stage1"
       THEN /\ analysis' = [analysis EXCEPT
                   ![i].report_evidence = AgentText("evidence", i, stageArgs[i]),
                   ![i].web_evidence = AgentText("web", i, stageArgs[i])]
            /\ pc' = [pc EXCEPT ![i] = "stage2"]
            /\ sub' = [sub EXCEPT ![i] = [a |-> "run", b |-> "run"]]
            /\ stageArgs' = [stageArgs EXCEPT ![i] = Stage2Args(analysis'[i])]
       ELSE /\ analysis' = [analysis EXCEPT
                   ![i].devils_advocate_summary =
                       AgentText("devils", i, stageArgs[i]),
                   ![i].advocate_summary =
                       AgentText("advocate", i, stageArgs[i])]
            /\ pc' = [pc EXCEPT ![i] = "stage3"]
            /\ sub' = [sub EXCEPT ![i] = [a |-> "run", b |-> "none"]]
            /\ stageArgs' = [stageArgs EXCEPT ![i] = Stage3Args(analysis'[i])]
    /\ UNCHANGED <<max_workers, total, semaphore, rec, failedAt, arbOut,
                   completed_count, gather, batchPc, batchExit, doneAtTimeout,
                   results, progress,
                   arbVars, searchVars, restVars>>

\* One of the two gathered tasks raises: gather hands the exception to
\* process_single_claim at once, and the sibling task is left as it is (of
\* a pipeline that has returned, only the tasks still running are kept).
SubTaskRaises(i, t, cbRaises) ==
    /\ pc[i] \in {"stage1", "stage2"}
    /\ sub[i][t] = "run"
    /\ sub' = [sub EXCEPT ![i] = [u \in {"a", "b"} |->
                   IF u # t /\ sub[i][u] = "run" THEN "run" ELSE "none"]]
    /\ Fail(i, StageNumber(pc[i]), AgentErrorMessage, cbRaises)
    /\ UNCHANGED arbOut

\* A task whose pipeline has already returned runs to its end.
OrphanEnds(i, t) ==
    /\ ~InStage(pc[i])
    /\ sub[i][t] = "run"
    /\ sub' = [sub EXCEPT ![i][t] = "none"]
    /\ UNCHANGED <<max_workers, total, semaphore, pc, analysis, rec, failedAt,
                   arbOut, stageArgs, completed_count, gather, batchPc, batchExit,
                   doneAtTimeout, results, progress,
                   arbVars, searchVars, restVars>>

\* Stage 3: call_llm raises inside run_arbiter, before its try block.
ArbiterRaises(i, cbRaises) ==
    /\ pc[i] = "stage3"
    /\ sub' = [sub EXCEPT ![i] = NoSub]
    /\ Fail(i, 3, AgentErrorMessage, cbRaises)
    /\ UNCHANGED arbOut

\* Stage 3: run_arbiter returns its tuple, which the pipeline binds to
\* score, justification; then the record is dumped and returned.
ArbiterReturns(i, response, cbRaises) ==
    /\ pc[i] = "stage3"
    /\ sub' = [sub EXCEPT ![i] = NoSub]
    /\ arbOut' = [arbOut EXCEPT ![i] = RunArbiter(response)]
    /\ IF UnpackRaises(RunArbiter(response), 2)
       THEN Fail(i, 3, UnpackErrorMessage, cbRaises)
       ELSE /\ Complete(i, [analysis[i] EXCEPT
                               !.arbiter_score = RunArbiter(response)[1],
                               !.arbiter_justification = RunArbiter(response)[2]],
                        FALSE, cbRaises)
            /\ UNCHANGED failedAt

\* The gather cancels each of its tasks that is not done: a task that has
\* finished stays as it is, every other one ends cancelled.
AfterCancel(p) == IF Finished(p) THEN p ELSE "cancelled"

\* asyncio.wait_for(..., timeout=PIPELINE_TIMEOUT_SECONDS) expires while the
\* gather is pending: the gather and every task of it that has not finished
\* are cancelled, the tasks of its stage with it. CancelledError is no
\* Exception: the except clause of process_single_claim lets it through, and
\* async with releases the permit. A pipeline in Stage 3 awaits the wait_for
\* of call_llm in its own task: when the backend's reply arrives in the loop
\* iteration of the cancellation, the wait_for of the interpreters before
\* 3.12 returns the reply in place of raising CancelledError, and that
\* pipeline (one of `survivors`) goes on.
Timeout(survivors) ==
    /\ batchPc = "running"
    /\ gather = "pending"
    /\ survivors \subseteq {i \in Claims : pc[i] = "stage3"}
    /\ gather' = "cancelled"
    /\ doneAtTimeout' = completed_count
    /\ pc' = [i \in Claims |-> IF i \in survivors THEN pc[i] ELSE AfterCancel(pc[i])]
    /\ sub' = [i \in Claims |->
                 IF InStage(pc[i]) /\ i \notin survivors THEN NoSub ELSE sub[i]]
    /\ analysis' = [i \in Claims |->
                 IF InStage(pc[i]) /\ i \notin survivors THEN NoRecord ELSE analysis[i]]
    /\ stageArgs' = [i \in Claims |-> IF i \in survivors THEN stageArgs[i] ELSE << >>]
    /\ semaphore' = semaphore
                       + Cardinality({i \in Claims : InStage(pc[i])} \ survivors)
    /\ UNCHANGED <<max_workers, total, rec, failedAt, arbOut,
                   completed_count, batchPc, batchExit, results, progress,
                   arbVars, searchVars, restVars>>

\* except asyncio.TimeoutError: ... except Exception as e: ... What wait_for
\* raises, its own TimeoutError after cancelling the gather or the exception
\* the gather passed on, is caught by one of the two clauses.
BatchCaughtMutant(raised) == raised = "cancelled"
BatchCaught(raised) == raised \in {"cancelled", "exception"}

\* batch_process_claims resumes from wait_for: with the gathered list, or in
\* one of the two except clauses, where results is still the empty list it
\* was initialised to; it returns list(results). After its timeout wait_for
\* resumes once every task of the cancelled gather has ended.
BatchReturn ==
    /\ batchPc = "running"
    /\ gather # "pending"
    /\ gather = "cancelled" => \A i \in Claims : ~InStage(pc[i])
    /\ batchPc' = IF gather = "result" \/ BatchCaught(gather)
                  THEN "returned" ELSE "raised"
    /\ batchExit' = CASE gather = "result" -> "normal"
                      [] gather = "cancelled" -> "timeout"
                      [] gather = "exception" -> "error"
    /\ results' = IF gather = "result" THEN GatherResult ELSE << >>
    /\ UNCHANGED <<max_workers, total, semaphore, pc, sub, analysis, rec,
                   failedAt, arbOut, stageArgs, completed_count, gather,
                   doneAtTimeout,
                   progress,
                   arbVars, searchVars, restVars>>

\* The caller's asyncio.run returns after batch_process_claims has: the loop
\* cancels the tasks that are left (those of a batch that returned from its
\* except Exception clause while other pipelines were in progress) and is
\* closed. As at the batch timeout, a pipeline in Stage 3 whose reply has
\* arrived can outlive the cancellation.
LoopCloses(survivors) ==
    /\ batchPc = "returned"
    /\ \E i \in Claims : ~Finished(pc[i]) \/ sub[i] # NoSub
    /\ survivors \subseteq {i \in Claims : pc[i] = "stage3"}
    /\ pc' = [i \in Claims |-> IF i \in survivors THEN pc[i] ELSE AfterCancel(pc[i])]
    /\ sub' = [i \in Claims |-> IF i \in survivors THEN sub[i] ELSE NoSub]
    /\ analysis' = [i \in Claims |-> IF i \in survivors THEN analysis[i] ELSE NoRecord]
    /\ stageArgs' = [i \in Claims |-> IF i \in survivors THEN stageArgs[i] ELSE << >>]
    /\ semaphore' = semaphore
                       + Cardinality({i \in Claims : InStage(pc[i])} \ survivors)
    /\ UNCHANGED <<max_workers, total, rec, failedAt, arbOut, completed_count,
                   gather, batchPc, batchExit, doneAtTimeout, results, progress,
                   arbVars, searchVars, restVars>>

BatchNext ==
    \/ \E i \in Claims : Acquire(i)
    \/ \E i \in Claims, t \in {"a", "b"} : SubTaskReturns(i, t)
    \/ \E i \in Claims, t \in {"a", "b"}, cbRaises \in BOOLEAN :
          SubTaskRaises(i, t, cbRaises)
    \/ \E i \in Claims, t \in {"a", "b"} : OrphanEnds(i, t)
    \/ \E i \in Claims, cbRaises \in BOOLEAN : ArbiterRaises(i, cbRaises)
    \/ \E i \in Claims, response \in PipelineResponses, cbRaises \in BOOLEAN :
          ArbiterReturns(i, response, cbRaises)
    \/ \E survivors \in SUBSET Claims : Timeout(survivors)
    \/ BatchReturn
    \/ \E survivors \in SUBSET Claims : LoopCloses(survivors)

Init == BatchInit /\ ArbIdle /\ SearchIdle /\ RestIdle
Next == BatchNext
Spec == Init /\ [][Next]_vars

\* The event loop runs every task that is ready: a queued task whose turn has
\* come takes the permit, batch_process_claims resumes once wait_for is done,
\* and (the premise of the liveness claims) every agent call of a started
\* pipeline eventually returns or raises. Nothing obliges the batch timeout to
\* fire or the caller to close the loop.
PipelineStep(i) ==
    \/ \E t \in {"a", "b"} : SubTaskReturns(i, t)
    \/ \E t \in {"a", "b"}, cbRaises \in BOOLEAN : SubTaskRaises(i, t, cbRaises)
    \/ \E cbRaises \in BOOLEAN : ArbiterRaises(i, cbRaises)
    \/ \E response \in PipelineResponses, cbRaises \in BOOLEAN :
          ArbiterReturns(i, response, cbRaises)
Fairness ==
    /\ \A i \in 1..MaxClaims : WF_vars(i \in Claims /\ Acquire(i))
    /\ \A i \in 1..MaxClaims : WF_vars(i \in Claims /\ PipelineStep(i))
    /\ WF_vars(BatchReturn)
SpecFair == Init /\ [][Next]_vars /\ Fairness

\* ------------------------------------- claims on the scheduler and pipeline
InFlight == Cardinality({i \in Claims : InStage(pc[i])})
IsProcessingError(justification) ==
    Len(justification) >= 1 /\ justification[1] = "Processing Error: "
RecordKeys ==
    {"claim", "report_evidence", "web_evidence", "devils_advocate_summary",
     "advocate_summary", "arbiter_score", "arbiter_justification"}
CallbackRaised == gather = "exception"

\* C1: with max_workers = k >= 1, the number of per-claim pipelines that have
\* started and not yet returned never exceeds k.
C1_BoundedPipelines == max_workers >= 1 => InFlight <= max_workers

\* The bound is binding: k pipelines are in flight and another claim waits.
C1_Witness ==
    /\ max_workers = 2
    /\ InFlight = 2
    /\ \E i \in Claims : pc[i] = "queued"

C4_TimeoutKeepsCompleted ==
    (batchPc = "returned" /\ batchExit = "timeout") => Len(results) = doneAtTimeout

\* C5: an exception raised in Stage 1, 2 or 3 never escapes
\* process_single_claim: the call returns a record of the normal shape with
\* score 6 and the justification "Processing Error: <message>".
C5_NoEscape ==
    \A i \in Claims :
        /\ pc[i] # "raised"
        /\ failedAt[i] # 0 =>
              /\ pc[i] = "done"
              /\ DOMAIN rec[i] = RecordKeys
              /\ rec[i].claim = i
              /\ rec[i].arbiter_score = 6
              /\ rec[i].arbiter_justification
                    \in {<<"Processing Error: ">> \o AgentErrorMessage,
                         <<"Processing Error: ">> \o UnpackErrorMessage}
              /\ arbOut[i] # << >> =>
                    rec[i].arbiter_justification
                        = <<"Processing Error: ">> \o UnpackErrorMessage

\* Pipelines have returned after an exception in each of the three stages.
C5_Witness ==
    \E i, j, k \in Claims :
        /\ failedAt[i] = 1 /\ failedAt[j] = 2 /\ failedAt[k] = 3
        /\ pc[i] = "done" /\ pc[j] = "done" /\ pc[k] = "done"

\* C6: when every agent call of a claim returned normally (so that
\* run_arbiter returned its tuple), the pipeline ends DONE, not FAILED: the
\* record carries the arbiter's score and justification and the evidence and
\* debate texts of Stages 1 and 2.
C6_HappyPathDone ==
    \A i \in Claims :
        (pc[i] = "done" /\ arbOut[i] # << >>) =>
            /\ failedAt[i] = 0
            /\ rec[i].arbiter_score = arbOut[i][1]
            /\ rec[i].arbiter_justification = arbOut[i][2]
            /\ rec[i].report_evidence # << >>
            /\ rec[i].web_evidence # << >>
            /\ rec[i].devils_advocate_summary # << >>
            /\ rec[i].advocate_summary # << >>

\* C7: every record process_single_claim returns is either fully populated
\* or an error record with score 6, reliability F and a justification marked
\* as a processing error.
FullyPopulated(r) ==
    /\ r.report_evidence # << >> /\ r.web_evidence # << >>
    /\ r.devils_advocate_summary # << >> /\ r.advocate_summary # << >>
    /\ r.arbiter_justification # << >>
C7_FullOrErrorRecord ==
    \A i \in Claims :
        rec[i] # NoRecord =>
            \/ FullyPopulated(rec[i])
            \/ /\ rec[i].arbiter_score = 6
               /\ IsProcessingError(rec[i].arbiter_justification)
               /\ "source_reliability_score" \in DOMAIN rec[i]
               /\ rec[i]["source_reliability_score"] = <<"F">>

\* C18: on_progress is called exactly once for each pipeline that completes,
\* in the step in which it completes and therefore in completion order, with
\* the number of completions so far and that pipeline's own record; it is never
\* called for a pipeline that has not completed.
C18_ProgressPerCompletion ==
    /\ [](\A i \in Claims :
            LET calls == {k \in 1..Len(progress) : progress[k][3].claim = i}
            IN  IF pc[i] = "done"
                THEN \E k \in calls : calls = {k} /\ progress[k][3] = rec[i]
                ELSE calls = {})
    /\ [][LET completing == {i \in Claims : pc[i] # "done" /\ pc'[i] = "done"}
          IN  IF completing = {} THEN progress' = progress
              ELSE \E i \in completing :
                      /\ completing = {i}
                      /\ progress' =
                            Append(progress, <<Len(progress) + 1, total, rec'[i]>>)
         ]_vars

\* The second claim completed before the first, each was reported when it
\* completed, and a third claim was cancelled by the batch timeout unreported.
C18_Witness ==
    /\ Len(progress) = 2
    /\ progress[1][3].claim = 2 /\ progress[2][3].claim = 1
    /\ progress[1][1] = 1 /\ progress[2][1] = 2
    /\ total = 3 /\ pc[3] = "cancelled"

\* C22: within one claim's pipeline no Stage 2 task starts before both Stage 1
\* tasks have returned, both Stage 2 tasks are called with exactly the web
\* evidence Stage 1 produced, and the arbiter does not start before both
\* Stage 2 tasks have returned and is called with exactly their two outputs.
LastOfStageReturns(i) ==
    \E t \in {"a", "b"} : sub[i][t] = "run" /\ sub[i][Other(t)] = "ok"
C22_StagesInOrder ==
    /\ [](\A i \in Claims :
            /\ pc[i] = "stage2" =>
                  /\ analysis[i].web_evidence = AgentText("web", i, << >>)
                  /\ stageArgs[i] = analysis[i].web_evidence
            /\ pc[i] = "stage3" =>
                  /\ analysis[i].devils_advocate_summary
                        = AgentText("devils", i, analysis[i].web_evidence)
                  /\ analysis[i].advocate_summary
                        = AgentText("advocate", i, analysis[i].web_evidence)
                  /\ stageArgs[i] = <<analysis[i].devils_advocate_summary,
                                      analysis[i].advocate_summary>>)
    /\ [][\A i \in Claims :
            /\ (pc'[i] = "stage1" /\ pc[i] # "stage1") => pc[i] = "queued"
            /\ (pc'[i] = "stage2" /\ pc[i] # "stage2") =>
                  pc[i] = "stage1" /\ LastOfStageReturns(i)
            /\ (pc'[i] = "stage3" /\ pc[i] # "stage3") =>
                  pc[i] = "stage2" /\ LastOfStageReturns(i)
         ]_vars

\* The arbiter of one claim has been called with the two debate texts, each
\* built on the web evidence of Stage 1, while another claim is in Stage 2.
C22_Witness ==
    \E i, j \in Claims :
        /\ pc[i] = "stage3" /\ pc[j] = "stage2"
        /\ stageArgs[i] = <<AgentText("devils", i, AgentText("web", i, << >>)),
                            AgentText("advocate", i, AgentText("web", i, << >>))>>
        /\ stageArgs[j] = AgentText("web", j, << >>)

C33_CountsAreConsecutive ==
    /\ [](\A k \in 1..Len(progress) :
              progress[k][1] = k /\ progress[k][1] <= total /\ progress[k][2] = total)
    /\ [][progress' # progress =>
             /\ Len(progress') = Len(progress) + 1
             /\ progress'[Len(progress')][1]
                   = Cardinality({i \in Claims : pc'[i] = "done"})]_vars

\* Three calls counted 1, 2, 3, for the claims in the order 2, 3, 1 in which
\* they completed.
C33_Witness ==
    /\ Len(progress) = 3
    /\ [k \in 1..3 |-> progress[k][1]] = <<1, 2, 3>>
    /\ [k \in 1..3 |-> progress[k][3].claim] = <<2, 3, 1>>

\* C34: for max_workers >= 0 batch_process_claims never raises to its caller:
\* after a batch timeout, or an exception raised by an on_progress call or by
\* a per-claim task, it returns a list, which may be empty.
C34_BatchNeverRaises ==
    max_workers >= 0 =>
        /\ batchPc # "raised"
        /\ batchPc = "returned" =>
              /\ batchExit \in {"normal", "timeout", "error"}
              /\ Len(results) \in {0, total}

\* An on_progress call raised and the batch returned the empty list.
C34_Witness ==
    /\ batchPc = "returned" /\ batchExit = "error"
    /\ CallbackRaised /\ Len(progress) >= 1
    /\ results = << >>

\* C35: when batch_process_claims returns, on any path, no pipeline of the
\* batch is still running, and on_progress is not called for the batch
\* afterwards.
C35_NothingRunsAfterReturn ==
    /\ [](batchPc = "returned" => \A i \in Claims : ~InStage(pc[i]))
    /\ [][batchPc = "returned" => progress' = progress]_vars

\* C36: when process_single_claim has returned its record, none of the tasks
\* it started is still running.
C36_NoTaskLeftBehind ==
    \A i \in Claims : rec[i] # NoRecord => \A t \in {"a", "b"} : sub[i][t] # "run"

C30_TimeoutCancelsPending ==
    /\ [][(gather = "pending" /\ gather' = "cancelled") =>
             \A i \in Claims : ~Finished(pc[i]) => pc'[i] = "cancelled"]_vars
    /\ [][gather = "cancelled" =>
             /\ pc' = pc
             /\ rec' = rec
             /\ completed_count' = completed_count
             /\ progress' = progress]_vars

\* ============================================================ gated searches
\* The calls of _run_search_async made by the claims in progress, all under
\* one event loop. A call takes a permit of the global semaphore, hands the
\* blocking backend function to _search_pool and waits for it for at most
\* SEARCH_TIMEOUT_SECONDS.
Searches == 1..NumSearches
\* The two gateway calls a pipeline has in flight at once: the debaters of
\* Stage 2, gathered, each inside call_llm under its own wait_for.
StageCalls == {"devils_advocate", "advocate"}

\* _get_search_semaphore: the semaphore is created on first use (under one
\* event loop the loop identity recorded with it never differs afterwards).
GetSearchSemaphore(value) == IF value = -1 THEN _MAX_CONCURRENT_SEARCHES ELSE value

\* Threads of _search_pool executing a backend function.
RunningJobs == {s \in Searches : job[s] = "running"}
\* ThreadPoolExecutor(max_workers=6): a queued callable starts when fewer
\* than six run.
PoolHasThread == Cardinality(RunningJobs) < SEARCH_POOL_WORKERS

SearchInit ==
    /\ search_semaphore = -1
    /\ searchPc = [s \in Searches |-> "idle"]
    /\ job = [s \in Searches |-> "none"]
    /\ searchResult = [s \in Searches |-> "none"]
    /\ gatewayCall = [g \in StageCalls |-> "awaiting"]

\* sem = _get_search_semaphore(); async with sem: with a permit free the call
\* enters the guarded section and submits its callable, else it waits.
SearchCall(s) ==
    /\ searchPc[s] = "idle"
    /\ IF GetSearchSemaphore(search_semaphore) > 0
       THEN /\ search_semaphore' = GetSearchSemaphore(search_semaphore) - 1
            /\ searchPc' = [searchPc EXCEPT ![s] = "held"]
            /\ job' = [job EXCEPT ![s] = "queued"]
       ELSE /\ search_semaphore' = GetSearchSemaphore(search_semaphore)
            /\ searchPc' = [searchPc EXCEPT ![s] = "waiting"]
            /\ UNCHANGED job
    /\ UNCHANGED <<searchResult, gatewayCall, batchVars, arbVars, restVars>>

\* A waiting call obtains a released permit and submits its callable.
SearchAcquire(s) ==
    /\ searchPc[s] = "waiting"
    /\ search_semaphore > 0
    /\ search_semaphore' = search_semaphore - 1
    /\ searchPc' = [searchPc EXCEPT ![s] = "held"]
    /\ job' = [job EXCEPT ![s] = "queued"]
    /\ UNCHANGED <<searchResult, gatewayCall, batchVars, arbVars, restVars>>

\* A pool thread takes the callable and runs the blocking backend function.
JobStart(s) ==
    /\ job[s] = "queued"
    /\ PoolHasThread
    /\ job' = [job EXCEPT ![s] = "running"]
    /\ UNCHANGED <<search_semaphore, searchPc, searchResult, gatewayCall,
                   batchVars, arbVars, restVars>>

\* The backend function returns or raises in its thread. A call still waiting
\* for it returns the results, or [] from except Exception, and leaves the
\* guarded section; a call that has timed out already is not affected.
JobEnd(s, raises) ==
    /\ job[s] = "running"
    /\ job' = [job EXCEPT ![s] = "finished"]
    /\ IF searchPc[s] = "held"
       THEN /\ searchPc' = [searchPc EXCEPT ![s] = "returned"]
            /\ searchResult' =
                  [searchResult EXCEPT ![s] = IF raises THEN "empty" ELSE "results"]
            /\ search_semaphore' = search_semaphore + 1
       ELSE UNCHANGED <<searchPc, searchResult, search_semaphore>>
    /\ UNCHANGED <<gatewayCall, batchVars, arbVars, restVars>>

\* The calls whose pool future the wait_for of call s cancels when it expires:
\* its own and no other.
TimedOutMutant(s) == Searches
TimedOut(s) == {s}

\* asyncio.wait_for(run_in_executor(...), timeout=SEARCH_TIMEOUT_SECONDS)
\* expires: the future is cancelled, which removes a callable still queued
\* in the pool but cannot stop one a thread is executing; the call returns []
\* from except asyncio.TimeoutError and leaves the guarded section.
SearchTimeout(s) ==
    /\ searchPc[s] = "held"
    /\ searchPc' = [searchPc EXCEPT ![s] = "returned"]
    /\ searchResult' = [searchResult EXCEPT ![s] = "empty"]
    /\ job' = [u \in Searches |->
                 IF u \in TimedOut(s) /\ job[u] = "queued" THEN "cancelled" ELSE job[u]]
    /\ search_semaphore' = search_semaphore + 1
    /\ UNCHANGED <<gatewayCall, batchVars, arbVars, restVars>>

\* A gateway call of the stage ends: the backend replies and call_llm returns
\* the text, or its wait_for expires and call_llm returns the timeout text.
\* Neither raises into the stage's gather.
GatewayEnds(g, outcome) ==
    /\ gatewayCall[g] = "awaiting"
    /\ gatewayCall' = [gatewayCall EXCEPT ![g] = outcome]
    /\ UNCHANGED <<search_semaphore, searchPc, job, searchResult,
                   batchVars, arbVars, restVars>>

SearchNext ==
    \/ \E s \in Searches : SearchCall(s)
    \/ \E s \in Searches : SearchAcquire(s)
    \/ \E s \in Searches : JobStart(s)
    \/ \E s \in Searches, raises \in BOOLEAN : JobEnd(s, raises)
    \/ \E s \in Searches : SearchTimeout(s)
    \/ \E g \in StageCalls : GatewayEnds(g, "text")
    \/ \E g \in StageCalls : GatewayEnds(g, "timeout")

InitSearch == SearchInit /\ BatchIdle /\ ArbIdle /\ RestIdle
SpecSearch == InitSearch /\ [][SearchNext]_vars

\* ------------------------------------------------- claims on gated searches
\* C10: the number of backend searches in flight at once never exceeds 4.
C10_AtMostFourSearches == Cardinality(RunningJobs) <= _MAX_CONCURRENT_SEARCHES

\* C23: a per-call timeout of a search or of a gateway call changes nothing
\* of any sibling call: in the step in which a call times out every other
\* search (of the same claim or another) and every other gateway call keeps
\* its position, its backend job and its result; a backend job is abandoned
\* only by the timeout of its own call, and a call that returns results
\* returns those of its own finished job.
SearchTimesOut(s) ==
    searchPc[s] = "held" /\ searchPc'[s] = "returned" /\ job'[s] # "finished"
GatewayTimesOut(g) ==
    gatewayCall[g] = "awaiting" /\ gatewayCall'[g] = "timeout"
SearchUntouched(u) ==
    searchPc'[u] = searchPc[u] /\ job'[u] = job[u]
        /\ searchResult'[u] = searchResult[u]
C23_TimeoutSparesSiblings ==
    /\ [][\A s \in Searches : SearchTimesOut(s) =>
             /\ \A u \in Searches \ {s} : SearchUntouched(u)
             /\ gatewayCall' = gatewayCall]_vars
    /\ [][\A g \in StageCalls : GatewayTimesOut(g) =>
             /\ \A h \in StageCalls \ {g} : gatewayCall'[h] = gatewayCall[h]
             /\ \A u \in Searches : SearchUntouched(u)]_vars
    /\ [](\A s \in Searches :
             /\ job[s] = "cancelled" =>
                   searchPc[s] = "returned" /\ searchResult[s] = "empty"
             /\ searchResult[s] = "results" => job[s] = "finished")

\* One search and one gateway call have timed out; a sibling search whose job
\* was queued in the pool at the time has returned results since, and the
\* sibling gateway call has returned its text.
C23_Witness ==
    /\ \E s, u \in Searches :
          /\ s # u
          /\ searchPc[s] = "returned" /\ job[s] = "running"
          /\ searchResult[u] = "results"
    /\ gatewayCall["devils_advocate"] = "timeout"
    /\ gatewayCall["advocate"] = "text"

\* C24: once a search call has returned on its timeout, its backend call is
\* no longer running and occupies no thread of the pool.
C24_TimedOutCallStopped ==
    \A s \in Searches : searchPc[s] = "returned" => job[s] # "running"

\* ================================== permits and clock of _run_search_async
\* The calls of _run_search_async once more, with what SpecSearch abstracts
\* from: the queue of waiters of the semaphore and the hand-over of a
\* released permit to the oldest waiter, the cancellation of a call by the
\* batch timeout at any point of it, and the seconds each call spends waiting
\* for a permit and inside its wait_for. The pool threads, which SpecSearch
\* follows, are left out: the backend's reply is an event that reaches a call
\* still in its wait_for, or never comes.
\*
\* A call is idle (not made yet), waiting (its future is in the queue),
\* granted (release() has set its future; the call has not resumed yet),
\* cancelling (cancelled while waiting; not resumed yet), granted-cancelling
\* (cancelled after its future was set; not resumed yet), held (inside async
\* with, in wait_for), returned or cancelled.
Holders(pcs) == {s \in Searches : pcs[s] \in {"granted", "granted-cancelling", "held"}}

\* Semaphore.locked(): no permit, or a waiter whose future is not cancelled.
Locked(value, pcs) ==
    value = 0 \/ \E k \in 1..Len(waiters) : pcs[waiters[k]] # "cancelling"

\* Semaphore._wake_up_next(): the first waiter whose future is not done takes
\* a permit and its future is set.
WakeUpNext(value, pcs) ==
    LET pending == {k \in 1..Len(waiters) : pcs[waiters[k]] = "waiting"}
    IN  IF pending = {} THEN [value |-> value, pcs |-> pcs]
        ELSE LET first == CHOOSE k \in pending : \A j \in pending : k <= j
             IN  [value |-> value - 1,
                  pcs |-> [pcs EXCEPT ![waiters[first]] = "granted"]]

\* Semaphore.release(): the counter goes up and the next waiter is woken. The
\* mutant is an exit path that keeps its permit.
SemReleaseMutant(value, pcs) == [value |-> value, pcs |-> pcs]
SemRelease(value, pcs) == WakeUpNext(value + 1, pcs)

\* The wait_for of a call starts when the call is inside async with; the
\* mutant starts it when the call is made.
TimerRunsMutant(p) == p \in {"waiting", "held"}
TimerRuns(p) == p = "held"

Without(seq, s) == SelectSeq(seq, LAMBDA u : u # s)

permitRest == <<job, gatewayCall, batchVars, arbVars, agentVars, llmVars,
                entryVars, loopVars>>

PermitInit ==
    /\ search_semaphore = -1
    /\ searchPc = [s \in Searches |-> "idle"]
    /\ searchResult = [s \in Searches |-> "none"]
    /\ waiters = << >>
    /\ clock = [s \in Searches |-> 0]

\* sem = _get_search_semaphore(); async with sem: acquire() takes a permit at
\* once unless the semaphore is locked, and then queues a future. The calls
\* are numbered in the order in which they are made.
EnterCall(s) ==
    /\ searchPc[s] = "idle"
    /\ \A u \in 1..(s - 1) : searchPc[u] # "idle"
    /\ IF ~Locked(GetSearchSemaphore(search_semaphore), searchPc)
       THEN /\ search_semaphore' = GetSearchSemaphore(search_semaphore) - 1
            /\ searchPc' = [searchPc EXCEPT ![s] = "held"]
            /\ UNCHANGED waiters
       ELSE /\ search_semaphore' = GetSearchSemaphore(search_semaphore)
            /\ searchPc' = [searchPc EXCEPT ![s] = "waiting"]
            /\ waiters' = Append(waiters, s)
    /\ UNCHANGED <<searchResult, clock, permitRest>>

\* A waiter resumes from await fut. Its future was set: it leaves the queue,
\* wakes the next waiter if a permit is free and enters the guarded section,
\* where it submits its callable and wait_for starts. Or it was cancelled:
\* it leaves the queue and, when a permit had been taken for it, gives the
\* permit back.
WaiterResumes(s) ==
    /\ searchPc[s] \in {"granted", "cancelling", "granted-cancelling"}
    /\ waiters' = Without(waiters, s)
    /\ clock' = [clock EXCEPT ![s] = 0]
    /\ LET to == IF searchPc[s] = "granted" THEN "held" ELSE "cancelled"
           pcs == [searchPc EXCEPT ![s] = to]
           after == CASE searchPc[s] = "granted" ->
                            IF search_semaphore > 0
                            THEN WakeUpNext(search_semaphore, pcs)
                            ELSE [value |-> search_semaphore, pcs |-> pcs]
                      [] searchPc[s] = "cancelling" ->
                            [value |-> search_semaphore, pcs |-> pcs]
                      [] searchPc[s] = "granted-cancelling" ->
                            SemRelease(search_semaphore, pcs)
       IN  /\ search_semaphore' = after.value
           /\ searchPc' = after.pcs
    /\ UNCHANGED <<searchResult, permitRest>>

\* The batch timeout cancels the call. While it waits for a permit its future
\* is cancelled (or, the future being set already, the cancellation is
\* delivered when it resumes); inside the guarded section the wait_for and
\* the pool future are cancelled, CancelledError passes the two except
\* clauses and async with releases the permit.
CallCancelled(s) ==
    /\ searchPc[s] \in {"waiting", "granted", "held"}
    /\ IF searchPc[s] = "held"
       THEN LET after == SemRelease(search_semaphore,
                                    [searchPc EXCEPT ![s] = "cancelled"])
            IN  /\ search_semaphore' = after.value
                /\ searchPc' = after.pcs
       ELSE /\ searchPc' = [searchPc EXCEPT ![s] =
                              IF searchPc[s] = "waiting" THEN "cancelling"
                              ELSE "granted-cancelling"]
            /\ UNCHANGED search_semaphore
    /\ UNCHANGED <<searchResult, waiters, clock, permitRest>>

\* The backend function returns or raises while the call is in its
\* wait_for: the call returns the results, or [] from except Exception,
\* through the exit of async with.
BackendEnds(s, raises) ==
    /\ searchPc[s] = "held"
    /\ LET after == SemRelease(search_semaphore,
                               [searchPc EXCEPT ![s] = "returned"])
       IN  /\ search_semaphore' = after.value
           /\ searchPc' = after.pcs
    /\ searchResult' = [searchResult EXCEPT ![s] =
                           IF raises THEN "empty" ELSE "results"]
    /\ UNCHANGED <<waiters, clock, permitRest>>

\* The wait_for of the call expires, SEARCH_TIMEOUT_SECONDS after it started:
\* the pool future is cancelled and the call returns [] from except
\* asyncio.TimeoutError through the exit of async with.
WaitForExpires(s) ==
    /\ TimerRuns(searchPc[s])
    /\ clock[s] = SEARCH_TIMEOUT_SECONDS
    /\ LET pcs == [searchPc EXCEPT ![s] = "returned"]
           after == IF searchPc[s] = "held"
                    THEN SemRelease(search_semaphore, pcs)
                    ELSE [value |-> search_semaphore, pcs |-> pcs]
       IN  /\ search_semaphore' = after.value
           /\ searchPc' = after.pcs
    /\ waiters' = Without(waiters, s)
    /\ searchResult' = [searchResult EXCEPT ![s] = "empty"]
    /\ UNCHANGED <<clock, permitRest>>

\* Time passes, for all calls alike, up to the next timer that is due: a
\* wait_for that has reached its timeout expires before more time passes,
\* and a call that has been woken resumes in the next iteration of the loop.
\* The seconds are counted up to SEARCH_TIMEOUT_SECONDS.
Tick ==
    /\ \E s \in Searches : searchPc[s] \in {"waiting", "held"}
    /\ \A s \in Searches :
          /\ TimerRuns(searchPc[s]) => clock[s] < SEARCH_TIMEOUT_SECONDS
          /\ searchPc[s] \notin {"granted", "cancelling", "granted-cancelling"}
    /\ clock' = [s \in Searches |->
                   LET later == clock[s] + DelayStep
                   IN  IF searchPc[s] \notin {"waiting", "held"} THEN clock[s]
                       ELSE IF later > SEARCH_TIMEOUT_SECONDS
                            THEN SEARCH_TIMEOUT_SECONDS ELSE later]
    /\ UNCHANGED <<search_semaphore, searchPc, searchResult, waiters,
                   permitRest>>

PermitNext ==
    \/ \E s \in Searches : EnterCall(s)
    \/ \E s \in Searches : WaiterResumes(s)
    \/ \E s \in Searches : CallCancelled(s)
    \/ \E s \in Searches, raises \in BOOLEAN : BackendEnds(s, raises)
    \/ \E s \in Searches : WaitForExpires(s)
    \/ Tick

InitPermits ==
    /\ PermitInit
    /\ job = << >> /\ gatewayCall = << >>
    /\ BatchIdle /\ ArbIdle /\ AgentIdle /\ LlmIdle /\ EntryIdle /\ LoopIdle
SpecPermits == InitPermits /\ [][PermitNext]_vars

\* ------------------------------------------ claims on permits and timeouts
InFlightCalls ==
    {s \in Searches : searchPc[s] \notin {"idle", "returned", "cancelled"}}

\* C37: within one event loop the permits are conserved: on every exit path
\* (results, timeout, backend exception, cancellation) a call gives back the
\* permit it acquired, once: the free permits and the calls that have
\* acquired one and not left the guarded section total 4, and all 4 permits
\* are free whenever no call is in flight.
C37_PermitsConserved ==
    search_semaphore # -1 =>
        /\ search_semaphore \in 0.._MAX_CONCURRENT_SEARCHES
        /\ search_semaphore + Cardinality(Holders(searchPc))
              = _MAX_CONCURRENT_SEARCHES
        /\ InFlightCalls = {} => search_semaphore = _MAX_CONCURRENT_SEARCHES

\* Calls have left the guarded section on each of the four paths, a fifth
\* was cancelled while it waited, and all the permits are free again.
C37_Witness ==
    /\ InFlightCalls = {} /\ search_semaphore = _MAX_CONCURRENT_SEARCHES
    /\ \E a, b, c, d \in Searches :
          /\ searchPc[a] = "returned" /\ searchResult[a] = "results"
          /\ searchPc[b] = "returned" /\ searchResult[b] = "empty"
                /\ clock[b] = SEARCH_TIMEOUT_SECONDS
          /\ searchPc[c] = "returned" /\ searchResult[c] = "empty" /\ clock[c] = 0
          /\ searchPc[d] = "cancelled" /\ clock[d] = DelayStep
    /\ searchPc[NumSearches] = "cancelled"

\* C38: the per-search timeout starts when the call has its permit. A call
\* waiting for a permit is never ended by it: it leaves the queue only with a
\* permit or cancelled, and only a call inside the guarded section returns.
\* The clock of a call that enters the guarded section starts at 0, and the
\* call leaves within SEARCH_TIMEOUT_SECONDS: no time passes beyond that
\* while it is inside, whether the backend replies or not, and what it
\* returns is the results or the empty list.
C38_TimeoutStartsAtPermit ==
    /\ [][\A s \in Searches :
            /\ searchPc[s] = "waiting" =>
                  searchPc'[s] \in {"waiting", "granted", "cancelling"}
            /\ (searchPc'[s] = "returned" /\ searchPc[s] # "returned") =>
                  /\ searchPc[s] = "held"
                  /\ searchResult'[s] \in {"results", "empty"}
            /\ (searchPc'[s] = "held" /\ searchPc[s] # "held") => clock'[s] = 0
            /\ (searchPc[s] = "held" /\ clock[s] = SEARCH_TIMEOUT_SECONDS) =>
                  \A u \in Searches : clock'[u] <= clock[u]]_vars
    /\ [](\A s \in Searches :
            searchPc[s] = "held" => clock[s] <= SEARCH_TIMEOUT_SECONDS)

\* A call whose backend never replied has returned the empty list on its
\* timeout, and the last call, which had waited SEARCH_TIMEOUT_SECONDS for a
\* permit by then, has been handed the permit.
C38_Witness ==
    /\ searchPc[NumSearches] = "granted"
    /\ clock[NumSearches] = SEARCH_TIMEOUT_SECONDS
    /\ \E s \in Searches :
          /\ searchPc[s] = "returned" /\ searchResult[s] = "empty"
          /\ clock[s] = SEARCH_TIMEOUT_SECONDS

\* ===================================================== run_web_search_agent
\* One call of run_web_search_agent: the query is derived from the claim, one
\* general-web and one encyclopedic search are dispatched per query candidate,
\* and their results are merged.
MAX_TEXT_RESULTS == 5
MAX_WIKI_RESULTS == 2
MAX_QUERIES_PER_CLAIM == 2
MAX_RESULTS_RETURNED == 12

LowerChar(c) ==
    CASE c = "A" -> "a" [] c = "B" -> "b" [] c = "G" -> "g" [] c = "P" -> "p"
      [] c = "T" -> "t" [] OTHER -> c
Lower(s) == [k \in 1..Len(s) |-> LowerChar(s[k])]
\* .replace('"', '')
RemoveQuotes(s) == SelectSeq(s, LAMBDA c : c # "\"")
Take(s, n) == SubSeq(s, 1, IF Len(s) < n THEN Len(s) ELSE n)

\* search_query = (await call_llm(...)).strip().replace('"', ''), or the
\* claim when the call raises.
DeriveQuery(claim, reply, raises) ==
    IF raises THEN claim ELSE RemoveQuotes(Strip(reply))

\* query_candidates: the derived query, then the stripped claim when it is
\* not blank and differs from the query whatever the case.
BuildCandidatesMutant(query, claim) == <<query, Strip(claim)>>
BuildCandidates(query, claim) ==
    Take(<<query>> \o
         (IF Strip(claim) # << >> /\ Lower(Strip(claim)) # Lower(Strip(query))
          THEN <<Strip(claim)>> ELSE << >>),
         MAX_QUERIES_PER_CLAIM)

\* tasks: for each candidate a Web task, then a Wikipedia task.
Tasks == 1..Len(results_list)
Label(t) == IF t % 2 = 1 THEN "Web" ELSE "Wikipedia"
MaxResults(t) == IF t % 2 = 1 THEN MAX_TEXT_RESULTS ELSE MAX_WIKI_RESULTS
QueryOf(t) == query_candidates[(t + 1) \div 2]

\* What a backend function returns: at most max_results entries, each with a
\* title and a URL (both backends only keep entries that have one). Entry k
\* of task t is titled <<t, k>>; its URL is a number, and the lists of two
\* tasks share URLs when they start from the same or from nearby bases.
OwnBase(t) == ((t - 1) \div 2) * (MAX_TEXT_RESULTS + MAX_WIKI_RESULTS)
                  + (IF t % 2 = 1 THEN 0 ELSE MAX_TEXT_RESULTS)
Bases(t) == {0} \cup {b \in 0..OwnBase(t) : OwnBase(t) - b <= MaxOverlap}
Found(t, base, n) == [k \in 1..n |-> [title |-> <<t, k>>, url |-> base + k]]
BackendLists(t) == {Found(t, base, n) : base \in Bases(t), n \in 0..MaxResults(t)}
\* The list a backend call that outlasts the timeout produces in the end.
LateList(t) == Found(t, OwnBase(t), MaxResults(t))

\* _run_search_async: the backend's list, or [] on timeout or exception.
SearchResultOfMutant(outcome, found) == found
SearchResultOf(outcome, found) == IF outcome = "ok" THEN found ELSE << >>

\* if url and url not in seen_urls
NoUrl == 0
IsNewUrlMutant(url, seen_urls) == url # NoUrl
IsNewUrl(url, seen_urls) == url # NoUrl /\ url \notin seen_urls

\* if len(aggregated_results) >= MAX_RESULTS_RETURNED: break
CapReachedMutant(aggregated_results) == FALSE
CapReached(aggregated_results) == Len(aggregated_results) >= MAX_RESULTS_RETURNED

\* f"[{label}] {title}: {body} (Source: {url})" (the body goes with the title)
FormatEntry(label, r) == <<label, r.title, r.url>>

\* The inner loop over one task's search_results, from entry k on; acc holds
\* aggregated_results and seen_urls. It breaks once the cap is reached.
RECURSIVE MergeOne(_, _, _, _)
MergeOne(label, search_results, k, acc) ==
    IF k > Len(search_results) THEN acc
    ELSE IF IsNewUrl(search_results[k].url, acc.seen)
    THEN LET next == [agg |-> Append(acc.agg, FormatEntry(label, search_results[k])),
                      seen |-> acc.seen \cup {search_results[k].url}]
         IN  IF CapReached(next.agg) THEN next
             ELSE MergeOne(label, search_results, k + 1, next)
    ELSE MergeOne(label, search_results, k + 1, acc)

\* The outer loop over results_list, from task t on.
RECURSIVE MergeAll(_, _, _)
MergeAll(list, t, acc) ==
    IF t > Len(list) THEN acc
    ELSE LET next == MergeOne(list[t][1], list[t][3], 1, acc)
         IN  IF CapReached(next.agg) THEN next ELSE MergeAll(list, t + 1, next)

Aggregate(list) == MergeAll(list, 1, [agg |-> << >>, seen |-> {}]).agg

\* The returned text: the sentinel, or the header and the merged entries.
AgentOutput(query, candidates, aggregated_results) ==
    IF aggregated_results = << >>
    THEN [kind |-> "no-results", query |-> query]
    ELSE [kind |-> "results", query |-> query,
          expanded |-> Take(Tail(candidates), 1),
          entries |-> aggregated_results]

ClaimTexts == {<<"a">>, <<" ", "A">>, <<" ">>}
QueryReplies == {<<"a">>, <<" ", "\"", "b", "\"">>, <<"Azure Error: ">>}
notAgentVars ==
    <<batchVars, arbVars, searchVars, llmVars, entryVars, loopVars, permitVars>>

AgentInit ==
    /\ agClaim \in ClaimTexts
    /\ agPc = "querygen"
    /\ queryReply = << >>
    /\ search_query = << >>
    /\ query_candidates = << >>
    /\ results_list = << >>
    /\ backend = << >>
    /\ outOfOrder = FALSE
    /\ agReturn = << >>

\* Steps 1 and 2: call_llm returns the reply or raises; the candidates are
\* built and their tasks dispatched.
QueryReady(reply, raises) ==
    /\ agPc = "querygen"
    /\ agPc' = "searching"
    /\ queryReply' = IF raises THEN [raised |-> TRUE]
                               ELSE [raised |-> FALSE, text |-> reply]
    /\ search_query' = DeriveQuery(agClaim, reply, raises)
    /\ query_candidates' = BuildCandidates(search_query', agClaim)
    /\ results_list' = [t \in 1..(2 * Len(query_candidates')) |-> "pending"]
    /\ backend' = [t \in 1..(2 * Len(query_candidates')) |-> "pending"]
    /\ UNCHANGED <<agClaim, outOfOrder, agReturn, notAgentVars>>

\* Task t of the gather ends: its backend call returned found, or raised, or
\* outlasted SEARCH_TIMEOUT_SECONDS.
SubSearchEnds(t, outcome, found) ==
    /\ agPc = "searching"
    /\ results_list[t] = "pending"
    /\ backend' = [backend EXCEPT ![t] = [outcome |-> outcome, found |-> found]]
    /\ results_list' = [results_list EXCEPT
                           ![t] = <<Label(t), QueryOf(t), SearchResultOf(outcome, found)>>]
    /\ outOfOrder' = (outOfOrder \/ \E u \in 1..(t - 1) : results_list[u] = "pending")
    /\ UNCHANGED <<agClaim, agPc, queryReply, search_query, query_candidates,
                   agReturn, notAgentVars>>

\* Step 3: the gather is complete; the results are merged and returned.
AgentReturn ==
    /\ agPc = "searching"
    /\ \A t \in Tasks : results_list[t] # "pending"
    /\ agPc' = "returned"
    /\ agReturn' = AgentOutput(search_query, query_candidates, Aggregate(results_list))
    /\ UNCHANGED <<agClaim, queryReply, search_query, query_candidates,
                   results_list, backend, outOfOrder, notAgentVars>>

AgentNext ==
    \/ \E reply \in QueryReplies, raises \in BOOLEAN : QueryReady(reply, raises)
    \/ \E t \in Tasks : \E found \in BackendLists(t) : SubSearchEnds(t, "ok", found)
    \/ \E t \in Tasks : SubSearchEnds(t, "timeout", LateList(t))
    \/ \E t \in Tasks : SubSearchEnds(t, "raise", << >>)
    \/ AgentReturn

InitAgent ==
    AgentInit /\ BatchIdle /\ ArbIdle /\ SearchIdle /\ LlmIdle /\ EntryIdle /\ LoopIdle
        /\ PermitIdle
SpecAgent == InitAgent /\ [][AgentNext]_vars

\* ------------------------------------------- claims on run_web_search_agent
\* The texts call_llm returns for a failure start with one of these.
ErrorPrefixes ==
    {"Error: Invalid Provider", "Error: Gemini API Key missing.",
     "Error: Missing Azure configuration details.", "Gemini Error: ", "Azure Error: "}
ErrorMarked(text) == text # << >> /\ text[1] \in ErrorPrefixes
AgentReturned == agPc = "returned"
Entries == IF agReturn.kind = "results" THEN agReturn.entries ELSE << >>
EntryUrl(e) == e[3]
\* The task an emitted entry came from (titles are <<task, position>>).
EntryTask(e) == e[2][1]
Succeeded(t) == backend[t].outcome = "ok"

\* C11: a sub-search that times out or raises contributes the empty list and
\* nothing else changes: the agent returns, every succeeded sub-search's list
\* is merged (each of its URLs is emitted unless the cap was reached), and the
\* output is the no-results text only when no sub-search found anything.
C11_SubSearchFailureIsolated ==
    AgentReturned =>
        /\ \A t \in Tasks :
              IF Succeeded(t)
              THEN /\ results_list[t][3] = backend[t].found
                   /\ \A k \in 1..Len(backend[t].found) :
                         \/ \E p \in 1..Len(Entries) :
                               EntryUrl(Entries[p]) = backend[t].found[k].url
                         \/ Len(Entries) = MAX_RESULTS_RETURNED
              ELSE /\ results_list[t][3] = << >>
                   /\ \A p \in 1..Len(Entries) : EntryTask(Entries[p]) # t
        /\ (\E t \in Tasks : Succeeded(t) /\ backend[t].found # << >>)
              => agReturn.kind = "results"

\* The general-web search timed out, the encyclopedic one returned 2 results,
\* and those 2 are the output.
C11_Witness ==
    /\ AgentReturned
    /\ Len(results_list) = 2
    /\ backend[1].outcome = "timeout"
    /\ Succeeded(2) /\ Len(backend[2].found) = 2
    /\ agReturn.kind = "results"
    /\ Len(agReturn.entries) = 2
    /\ \A p \in 1..2 : agReturn.entries[p][1] = "Wikipedia"

\* C12: each URL is emitted at most once, and the entry emitted for it is the
\* first entry with that URL in merge order (task by task, each task's list
\* in its own order).
C12_EachUrlOnceFirstSeen ==
    AgentReturned =>
        /\ \A p, q \in 1..Len(Entries) :
              EntryUrl(Entries[p]) = EntryUrl(Entries[q]) => p = q
        /\ \A p \in 1..Len(Entries) :
              LET t == Entries[p][2][1]
                  k == Entries[p][2][2]
              IN  /\ t \in Tasks
                  /\ k \in 1..Len(results_list[t][3])
                  /\ results_list[t][3][k].url = EntryUrl(Entries[p])
                  /\ Entries[p][1] = Label(t)
                  /\ \A u \in Tasks : \A j \in 1..Len(results_list[u][3]) :
                        results_list[u][3][j].url = EntryUrl(Entries[p])
                            => (u > t \/ (u = t /\ j >= k))

\* One URL was found by both backends for the first query and again for the
\* second query.
C12_Witness ==
    /\ AgentReturned
    /\ Len(results_list) = 4
    /\ \E url \in 1..MAX_TEXT_RESULTS :
          /\ \A t \in {1, 2, 3} :
                \E k \in 1..Len(results_list[t][3]) : results_list[t][3][k].url = url
          /\ \E p \in 1..Len(Entries) :
                EntryUrl(Entries[p]) = url /\ EntryTask(Entries[p]) = 1

\* The sub-search results concatenated in dispatch order, and what is left of a
\* sequence of entries when every entry whose URL occurred earlier is dropped.
RECURSIVE ConcatFrom(_)
ConcatFrom(t) ==
    IF t > Len(results_list) THEN << >>
    ELSE [k \in 1..Len(results_list[t][3]) |->
             <<Label(t), results_list[t][3][k].title, results_list[t][3][k].url>>]
         \o ConcatFrom(t + 1)
RECURSIVE DedupFrom(_, _)
DedupFrom(seq, p) ==
    IF p > Len(seq) THEN << >>
    ELSE (IF \A q \in 1..(p - 1) : EntryUrl(seq[q]) # EntryUrl(seq[p])
          THEN <<seq[p]>> ELSE << >>) \o DedupFrom(seq, p + 1)
DedupConcat == DedupFrom(ConcatFrom(1), 1)

\* C13: the merged list has at most 12 entries and is a prefix of the
\* deduplicated concatenation of the sub-search results in dispatch order
\* (the whole of it when that has no more than 12 entries), whatever the order
\* in which the sub-searches finished.
C13_CappedPrefixInDispatchOrder ==
    AgentReturned =>
        /\ Len(Entries) <= MAX_RESULTS_RETURNED
        /\ Len(Entries) <= Len(DedupConcat)
        /\ Entries = SubSeq(DedupConcat, 1, Len(Entries))
        /\ Len(Entries) < MAX_RESULTS_RETURNED => Entries = DedupConcat

\* More than 12 distinct URLs were found, by sub-searches that finished out
\* of dispatch order, and 12 entries were emitted.
C13_Witness ==
    /\ AgentReturned
    /\ outOfOrder
    /\ Len(DedupConcat) > MAX_RESULTS_RETURNED
    /\ Len(Entries) = MAX_RESULTS_RETURNED

\* The searches dispatched: per candidate a general-web and an encyclopedic
\* one, in this order, each for that candidate.
Dispatched == agPc \in {"searching", "returned"}
TwoSearchesPerCandidate ==
    /\ Len(results_list) = 2 * Len(query_candidates)
    /\ \A c \in 1..Len(query_candidates) :
          /\ Label(2 * c - 1) = "Web" /\ Label(2 * c) = "Wikipedia"
          /\ \A t \in {2 * c - 1, 2 * c} :
                results_list[t] # "pending" =>
                    /\ results_list[t][1] = Label(t)
                    /\ results_list[t][2] = query_candidates[c]

\* C25 as stated: the stripped claim is the second candidate exactly when the
\* claim is not blank and differs, whatever the case, from the derived query.
C25_AsStated ==
    Dispatched =>
        /\ Len(query_candidates) \in {1, 2}
        /\ query_candidates[1] = search_query
        /\ Len(query_candidates) = 2 <=>
              (Strip(agClaim) # << >> /\ Lower(Strip(agClaim)) # Lower(search_query))
        /\ TwoSearchesPerCandidate

\* C25 amended: there are 1 or 2 query candidates, the derived query first;
\* the stripped claim is the second exactly when the claim is not blank and
\* differs from the derived query once both are stripped of surrounding
\* whitespace and whatever the case; two searches, general web then
\* encyclopedic, are dispatched per candidate: 2 or 4 in all.
C25_CandidatesAndDispatch ==
    Dispatched =>
        /\ Len(query_candidates) \in {1, 2}
        /\ query_candidates[1] = search_query
        /\ Len(query_candidates) = 2 <=>
              (Strip(agClaim) # << >>
                  /\ Lower(Strip(agClaim)) # Lower(Strip(search_query)))
        /\ Len(query_candidates) = 2 => query_candidates[2] = Strip(agClaim)
        /\ TwoSearchesPerCandidate
        /\ Len(results_list) \in {2, 4}

\* The claim " A" with the derived query b: two candidates, b and A, and all
\* four searches have returned.
C25_Witness ==
    /\ agPc = "searching"
    /\ agClaim = <<" ", "A">>
    /\ query_candidates = << <<"b">>, <<"A">> >>
    /\ Len(results_list) = 4
    /\ \A t \in Tasks : results_list[t] # "pending"

\* C26: when the call_llm that derives the query fails (it raises, or it
\* returns the error text of a timeout, of a backend error or of a missing
\* configuration), the search query is the raw claim, and no gateway error
\* text is a query handed to the search backends.
C26_FailureFallsBackToClaim ==
    Dispatched =>
        /\ IF queryReply.raised THEN search_query = agClaim
           ELSE ErrorMarked(queryReply.text) => search_query = agClaim
        /\ \A c \in 1..Len(query_candidates) : ~ErrorMarked(query_candidates[c])

\* ================================================================= call_llm
\* One invocation of call_llm. The model's backends answer, fail or stay
\* silent; a backend call that has not ended after LLM_TIMEOUT_SECONDS is
\* abandoned by asyncio.wait_for.
LLM_TIMEOUT_SECONDS == 30

Gemini == <<"Google Gemini">>
Azure == <<"Microsoft Azure">>
Providers == {Gemini, Azure, <<"Other">>}

\* config.get(k) is truthy: the key is there and its value is not empty.
Truthy(v) == v.t = "str" /\ v.s # << >>
AzureRequired == {"azure_endpoint", "azure_key", "azure_version", "azure_deployment"}
GeminiRequired == {"gemini_key"}
\* all(config.get(k) for k in required); not api_key
AllPresentMutant(cfg, required) == TRUE
AllPresent(cfg, required) == \A k \in required : Truthy(cfg[k])

\* Endpoints are a host part and a path; one of them does not parse as a URL.
GoodEndpoint == JStr(<<"https://host", "/openai">>)
BadEndpoint == JStr(<<"https://[host">>)
\* _normalize_azure_endpoint: scheme and host, then a slash. urlparse raises
\* ValueError on an unbalanced bracket in the host.
NormalizeRaises(endpoint) == endpoint = BadEndpoint
Normalize(endpoint) ==
    IF Strip(endpoint.s) = << >> THEN << >> ELSE <<Strip(endpoint.s)[1], "/">>

\* cache_key = f"{endpoint}|{key}|{version}": the three values as texts
\* (None for a key that is not there), joined by bars.
KeyPart(v) == IF v = Absent THEN <<"None">> ELSE v.s
CacheKey(cfg) ==
    KeyPart(cfg["azure_endpoint"]) \o <<"|">> \o KeyPart(cfg["azure_key"])
        \o <<"|">> \o KeyPart(cfg["azure_version"])
NoClient == [t |-> "none"]
NoKey == << >>
ThisLoop == "this-loop"
Client(cfg) == [t |-> "client", azure_endpoint |-> Normalize(cfg["azure_endpoint"]),
                api_key |-> cfg["azure_key"].s, api_version |-> cfg["azure_version"].s]
NeedsRebuildUnder(cfg, current_loop_id) ==
    \/ _azure_client = NoClient
    \/ _azure_client_key # CacheKey(cfg)
    \/ _azure_client_loop_id # current_loop_id
NeedsRebuild(cfg) == NeedsRebuildUnder(cfg, ThisLoop)
\* _get_azure_client raises when its config lookups, the normalisation or the
\* client's constructor raise.
GetClientRaises(cfg, ctorRaises) ==
    NeedsRebuild(cfg) /\
        \/ \E k \in {"azure_endpoint", "azure_key", "azure_version"} : cfg[k] = Absent
        \/ cfg["azure_endpoint"].t = "str" /\ NormalizeRaises(cfg["azure_endpoint"])
        \/ ctorRaises

InvalidProviderError == <<"Error: Invalid Provider">>
GeminiKeyError == <<"Error: Gemini API Key missing.">>
AzureConfigError == <<"Error: Missing Azure configuration details.">>
Gpt5VersionError ==
    <<"Azure Error: ", "GPT-5 deployment requires AZURE_OPENAI_API_VERSION=2025-03-01-preview or later.">>
ProviderPrefix(p) == IF p = Gemini THEN "Gemini Error: " ELSE "Azure Error: "
\* f"{Provider} Error: Request timed out after {LLM_TIMEOUT_SECONDS}s"
TimeoutError(p) ==
    <<ProviderPrefix(p), "Request timed out after ">> \o NatToStr(LLM_TIMEOUT_SECONDS) \o <<"s">>
\* f"{Provider} Error: {str(e)}"
BackendError(p, message) == <<ProviderPrefix(p)>> \o message

VersionMessage ==
    <<"Responses API is enabled only for api-version 2025-03-01-preview and later">>
ErrorMessages == {<<"404">>, VersionMessage}
StartsWith(s, prefix) == Len(s) >= Len(prefix) /\ SubSeq(s, 1, Len(prefix)) = prefix
IsGpt5(deployment) == StartsWith(Lower(deployment), <<"g", "p", "t", "-", "5">>)

\* How a backend call ends: with a text, with an exception, or not at all
\* within the timeout.
Delays == {d \in 0..(LLM_TIMEOUT_SECONDS - 1) : d % DelayStep = 0}
ModelTexts == {<<"answer">>, <<" ">>, << >>}
Outcomes ==
    [outcome : {"text"}, text : ModelTexts, delay : Delays]
      \cup [outcome : {"error"}, message : ErrorMessages, delay : Delays]
      \cup [outcome : {"timeout"}, delay : {LLM_TIMEOUT_SECONDS}]

\* After the Responses attempt the Chat Completions attempt follows, unless
\* the first one returned a text, timed out, or failed for good.
FallsBackMutant(att, deployment) == att.outcome = "timeout"
FallsBackNeverMutant(att, deployment) == FALSE
FallsBackAlwaysMutant(att, deployment) == TRUE
FallsBack(att, deployment) ==
    \/ att.outcome = "text" /\ Strip(att.text) = << >>
    \/ att.outcome = "error"
          /\ ~(att.message = VersionMessage /\ IsGpt5(deployment))
ResponsesReturn(att) ==
    CASE att.outcome = "text" -> Strip(att.text)
      [] att.outcome = "timeout" -> TimeoutError(Azure)
      [] att.outcome = "error" -> Gpt5VersionError
\* text = ... or ""; the except clauses
FinalReturn(p, att) ==
    CASE att.outcome = "text" -> att.text
      [] att.outcome = "timeout" -> TimeoutError(p)
      [] att.outcome = "error" -> BackendError(p, att.message)

ConfigValues(k) ==
    {Absent, JStr(<< >>)} \cup
    CASE k = "azure_endpoint" -> {GoodEndpoint, BadEndpoint}
      [] k = "azure_key" -> {JStr(<<"key-1">>), JStr(<<"key-2">>)}
      [] k = "azure_version" -> {JStr(<<"2025-03-01-preview">>)}
      [] k = "azure_deployment" ->
            {JStr(<<"G", "P", "T", "-", "5">>), JStr(<<"g", "p", "t", "-", "4">>)}
      [] k = "gemini_key" -> {JStr(<<"gemini-key">>)}
ConfigKeys == AzureRequired \cup GeminiRequired
ConfigOf(endpoint, key, version, deployment, gemini_key) ==
    [k \in ConfigKeys |->
        CASE k = "azure_endpoint" -> endpoint
          [] k = "azure_key" -> key
          [] k = "azure_version" -> version
          [] k = "azure_deployment" -> deployment
          [] k = "gemini_key" -> gemini_key]
Configs ==
    {ConfigOf(endpoint, key, version, deployment, gemini_key) :
        endpoint \in ConfigValues("azure_endpoint"),
        key \in ConfigValues("azure_key"),
        version \in ConfigValues("azure_version"),
        deployment \in ConfigValues("azure_deployment"),
        gemini_key \in ConfigValues("gemini_key")}
\* The configurations a cached client can have been built from (the
\* deployment and the Gemini key play no part in it).
Buildable ==
    {ConfigOf(GoodEndpoint, key, version, Absent, Absent) :
        key \in ConfigValues("azure_key") \ {Absent, JStr(<< >>)},
        version \in ConfigValues("azure_version") \ {Absent, JStr(<< >>)}}
notLlmVars ==
    <<batchVars, arbVars, searchVars, agentVars, entryVars, loopVars, permitVars>>

LlmInit ==
    /\ provider \in Providers
    /\ config \in Configs
    /\ \/ /\ _azure_client = NoClient
          /\ _azure_client_key = NoKey
          /\ _azure_client_loop_id = "none"
       \/ \E cfg \in Buildable :
             /\ _azure_client = Client(cfg)
             /\ _azure_client_key = CacheKey(cfg)
             /\ _azure_client_loop_id \in {ThisLoop, "old-loop"}
    /\ clientAtCall = <<_azure_client, _azure_client_key, _azure_client_loop_id>>
    /\ llmPc = "called"
    /\ attempts = << >>
    /\ elapsed = 0
    /\ llmReturn = << >>

LlmReturns(text) ==
    /\ llmPc' = "returned"
    /\ llmReturn' = text

\* call_llm with a provider that is neither of the two.
CallInvalidProvider ==
    /\ llmPc = "called"
    /\ provider \notin {Gemini, Azure}
    /\ LlmReturns(InvalidProviderError)
    /\ UNCHANGED <<provider, config, _azure_client, _azure_client_key,
                   _azure_client_loop_id, clientAtCall, attempts, elapsed,
                   notLlmVars>>

\* _call_gemini up to the backend call: the key check, then the import and the
\* client's construction inside the try block.
CallGemini(setupRaises) ==
    /\ llmPc = "called"
    /\ provider = Gemini
    /\ IF ~AllPresent(config, GeminiRequired) THEN LlmReturns(GeminiKeyError)
       ELSE IF setupRaises THEN LlmReturns(BackendError(Gemini, <<"setup failed">>))
       ELSE llmPc' = "gemini" /\ UNCHANGED llmReturn
    /\ UNCHANGED <<provider, config, _azure_client, _azure_client_key,
                   _azure_client_loop_id, clientAtCall, attempts, elapsed,
                   notLlmVars>>

\* _call_azure up to the first backend call: the configuration check, then
\* _get_azure_client, which is not inside any try block.
CallAzure(ctorRaises) ==
    /\ llmPc = "called"
    /\ provider = Azure
    /\ IF ~AllPresent(config, AzureRequired)
       THEN /\ LlmReturns(AzureConfigError)
            /\ UNCHANGED <<_azure_client, _azure_client_key, _azure_client_loop_id>>
       ELSE IF GetClientRaises(config, ctorRaises)
       THEN /\ llmPc' = "raised"
            /\ UNCHANGED <<llmReturn, _azure_client, _azure_client_key,
                           _azure_client_loop_id>>
       ELSE /\ llmPc' = "responses"
            /\ UNCHANGED llmReturn
            /\ IF NeedsRebuild(config)
               THEN /\ _azure_client' = Client(config)
                    /\ _azure_client_key' = CacheKey(config)
                    /\ _azure_client_loop_id' = ThisLoop
               ELSE UNCHANGED <<_azure_client, _azure_client_key,
                                _azure_client_loop_id>>
    /\ UNCHANGED <<provider, config, clientAtCall, attempts, elapsed, notLlmVars>>

\* The awaited backend call ends as att says; call_llm returns, or goes on to
\* the Chat Completions attempt.
Attempt(shape, att) ==
    [shape |-> shape, outcome |-> att.outcome,
     detail |-> CASE att.outcome = "text" -> att.text
                  [] att.outcome = "error" -> att.message
                  [] att.outcome = "timeout" -> << >>]
GeminiEnds(att) ==
    /\ llmPc = "gemini"
    /\ attempts' = Append(attempts, Attempt("generate_content", att))
    /\ elapsed' = elapsed + att.delay
    /\ LlmReturns(FinalReturn(Gemini, att))
    /\ UNCHANGED <<provider, config, _azure_client, _azure_client_key,
                   _azure_client_loop_id, clientAtCall, notLlmVars>>

ResponsesEnds(att) ==
    /\ llmPc = "responses"
    /\ attempts' = Append(attempts, Attempt("responses", att))
    /\ elapsed' = elapsed + att.delay
    /\ IF FallsBack(att, config["azure_deployment"].s)
       THEN llmPc' = "chat" /\ UNCHANGED llmReturn
       ELSE LlmReturns(ResponsesReturn(att))
    /\ UNCHANGED <<provider, config, _azure_client, _azure_client_key,
                   _azure_client_loop_id, clientAtCall, notLlmVars>>

ChatEnds(att) ==
    /\ llmPc = "chat"
    /\ attempts' = Append(attempts, Attempt("chat.completions", att))
    /\ elapsed' = elapsed + att.delay
    /\ LlmReturns(FinalReturn(Azure, att))
    /\ UNCHANGED <<provider, config, _azure_client, _azure_client_key,
                   _azure_client_loop_id, clientAtCall, notLlmVars>>

LlmNext ==
    \/ CallInvalidProvider
    \/ \E setupRaises \in BOOLEAN : CallGemini(setupRaises)
    \/ \E ctorRaises \in BOOLEAN : CallAzure(ctorRaises)
    \/ \E att \in Outcomes : GeminiEnds(att)
    \/ \E att \in Outcomes : ResponsesEnds(att)
    \/ \E att \in Outcomes : ChatEnds(att)

InitLlm ==
    LlmInit /\ BatchIdle /\ ArbIdle /\ SearchIdle /\ AgentIdle /\ EntryIdle /\ LoopIdle
        /\ PermitIdle
SpecLlm == InitLlm /\ [][LlmNext]_vars

\* ------------------------------------------------------- claims on call_llm
LlmReturned == llmPc = "returned"
MissingConfig ==
    \/ provider = Azure /\ \E k \in AzureRequired : config[k] \in {Absent, JStr(<< >>)}
    \/ provider = Gemini /\ config["gemini_key"] \in {Absent, JStr(<< >>)}
LastAttemptFailed ==
    attempts # << >> /\ attempts[Len(attempts)].outcome \in {"timeout", "error"}

\* C14: call_llm never raises; an unknown provider, missing configuration, a
\* client that cannot be constructed, a backend exception and a timeout each
\* end in a returned text that starts with an error prefix.
C14_NeverRaises ==
    /\ llmPc # "raised"
    /\ (LlmReturned /\ (provider \notin {Gemini, Azure} \/ MissingConfig
                           \/ LastAttemptFailed))
          => ErrorMarked(llmReturn)

\* C15: with a required key of the selected provider missing or empty,
\* call_llm returns the configuration error at once: it does not raise, the
\* cached client is neither constructed nor replaced, and no backend call is
\* made.
C15_MissingConfigIsAnError ==
    (MissingConfig /\ llmPc # "called") =>
        /\ LlmReturned
        /\ llmReturn = (IF provider = Azure
                        THEN <<"Error: Missing Azure configuration details.">>
                        ELSE <<"Error: Gemini API Key missing.">>)
        /\ <<_azure_client, _azure_client_key, _azure_client_loop_id>> = clientAtCall
        /\ attempts = << >>
        /\ elapsed = 0

\* An Azure call without the API version returned, with a client cached from
\* an earlier call under another event loop left in place.
C15_Witness ==
    /\ LlmReturned
    /\ provider = Azure
    /\ config["azure_version"] = Absent
    /\ \A k \in AzureRequired \ {"azure_version"} : Truthy(config[k])
    /\ _azure_client # NoClient
    /\ _azure_client_loop_id # ThisLoop
    /\ llmReturn = AzureConfigError

\* C16: a backend call that outlasts the 30 s timeout is the last thing the
\* invocation does: call_llm has returned the provider's timeout text.
C16_TimeoutString ==
    \A k \in 1..Len(attempts) :
        attempts[k].outcome = "timeout" =>
            /\ k = Len(attempts)
            /\ LlmReturned
            /\ llmReturn =
                  <<(IF provider = Gemini THEN "Gemini Error: " ELSE "Azure Error: "),
                    "Request timed out after ", "3", "0", "s">>

\* The Responses call failed, the Chat Completions call timed out, and the
\* Azure timeout text was returned.
C16_Witness ==
    /\ LlmReturned
    /\ Len(attempts) = 2
    /\ attempts[1].shape = "responses" /\ attempts[1].outcome = "error"
    /\ attempts[2].shape = "chat.completions" /\ attempts[2].outcome = "timeout"
    /\ llmReturn[1] = "Azure Error: "

\* C17: every invocation returns within 30 s of its start, the Azure
\* invocations that try both API shapes included.
C17_ReturnsWithinTimeout == LlmReturned => elapsed <= LLM_TIMEOUT_SECONDS

\* What the Responses attempt of an Azure invocation came to.
ResponsesDone == provider = Azure /\ attempts # << >> /\ llmPc # "responses"
GaveText(r) == r.outcome = "text" /\ Strip(r.detail) # << >>
Incompatible(r) ==
    r.outcome = "error" /\ r.detail = VersionMessage
        /\ IsGpt5(config["azure_deployment"].s)
ChatAttempted == Len(attempts) = 2 /\ attempts[2].shape = "chat.completions"
\* The Responses shape is the first attempt and Chat Completions can only be
\* the second.
ShapesInOrder ==
    provider = Azure =>
        /\ Len(attempts) <= 2
        /\ \A k \in 1..Len(attempts) :
              attempts[k].shape = (IF k = 1 THEN "responses" ELSE "chat.completions")
        /\ llmPc = "chat" => Len(attempts) = 1

\* C27 as stated: the Responses shape is attempted first; after every failure
\* of it (timeout or exception) other than the incompatibility of an old API
\* version with a gpt-5 deployment, Chat Completions is attempted before
\* anything is returned; Chat Completions is never attempted after a
\* non-empty Responses text.
C27_AsStated ==
    /\ ShapesInOrder
    /\ ResponsesDone =>
          LET r == attempts[1]
          IN  /\ Incompatible(r) =>
                    LlmReturned /\ ~ChatAttempted /\ llmReturn = Gpt5VersionError
              /\ (r.outcome \in {"timeout", "error"} /\ ~Incompatible(r)) =>
                    (llmPc = "chat" \/ ChatAttempted)
              /\ GaveText(r) => ~ChatAttempted /\ llmPc # "chat"

\* C27 amended: the Responses shape is attempted first. When it returns
\* non-empty text that text is returned and Chat Completions is not
\* attempted; when it times out the timeout text is returned and Chat
\* Completions is not attempted; when it fails with the incompatibility of an
\* old API version with a gpt-5 deployment that error is returned at once; on
\* every other exception, and on an empty text, Chat Completions is attempted
\* before anything is returned.
C27_ResponsesThenChat ==
    /\ ShapesInOrder
    /\ ResponsesDone =>
          LET r == attempts[1]
          IN  /\ GaveText(r) =>
                    LlmReturned /\ ~ChatAttempted /\ llmReturn = Strip(r.detail)
              /\ r.outcome = "timeout" =>
                    LlmReturned /\ ~ChatAttempted /\ llmReturn = TimeoutError(Azure)
              /\ Incompatible(r) =>
                    LlmReturned /\ ~ChatAttempted /\ llmReturn = Gpt5VersionError
              /\ (~GaveText(r) /\ r.outcome # "timeout" /\ ~Incompatible(r)) =>
                    (llmPc = "chat" \/ (LlmReturned /\ ChatAttempted))

\* The Responses call of a gpt-5 deployment failed with an error other than
\* the version message, and the Chat Completions call then returned a text.
C27_Witness ==
    /\ LlmReturned /\ provider = Azure
    /\ ChatAttempted
    /\ IsGpt5(config["azure_deployment"].s)
    /\ attempts[1].outcome = "error" /\ attempts[1].detail # VersionMessage
    /\ attempts[2].outcome = "text"
    /\ llmReturn = <<"answer">>

\* The shapes an invocation of the provider can attempt.
ShapesOf(p) ==
    CASE p = Azure -> {"responses", "chat.completions"}
      [] p = Gemini -> {"generate_content"}
      [] OTHER -> {}
AttemptTimedOut(k) == attempts[k].outcome = "timeout"

\* C40: an invocation of call_llm makes at most two backend attempts, one per
\* API shape of Azure and one for Gemini, and never two of the same shape; an
\* attempt that timed out is the last one: the invocation has returned and
\* no attempt follows it.
C40_AtMostOncePerShape ==
    /\ [](/\ Len(attempts) <= 2
          /\ Len(attempts) <= Cardinality(ShapesOf(provider))
          /\ \A k \in 1..Len(attempts) :
                /\ attempts[k].shape \in ShapesOf(provider)
                /\ \A j \in 1..(k - 1) : attempts[j].shape # attempts[k].shape
                /\ AttemptTimedOut(k) => k = Len(attempts) /\ LlmReturned)
    /\ [][(\E k \in 1..Len(attempts) : AttemptTimedOut(k)) =>
            attempts' = attempts]_vars

\* The Responses call returned a blank text, the Chat Completions call that
\* followed timed out, and the invocation has returned the timeout text.
C40_Witness ==
    /\ LlmReturned /\ provider = Azure
    /\ Len(attempts) = 2
    /\ attempts[1].shape = "responses" /\ attempts[1].outcome = "text"
    /\ attempts[2].shape = "chat.completions" /\ AttemptTimedOut(2)
    /\ llmReturn = TimeoutError(Azure)

\* ============================================ the globals over event loops
\* The Run Analysis handler calls asyncio.run each time it runs: every run
\* has an event loop of its own, and the module globals of llm.py and
\* web_search.py outlive it. SpecLoops is a sequence of such runs with the
\* calls of _get_azure_client and _get_search_semaphore made under them.
\*
\* id() of a loop is its address: two loops alive at once have different ids,
\* but a loop created after another was closed and freed can be given the
\* address of that one.
Addresses == {"0x7f01", "0x7f02"}
NoObject == [n |-> 0]

\* The settings a client is constructed from.
Settings(cfg) == <<cfg["azure_endpoint"], cfg["azure_key"], cfg["azure_version"]>>
\* Configurations of the calls: a key and a version that hold a bar, and a
\* second key.
LoopConfigs ==
    {ConfigOf(GoodEndpoint, key, version, Absent, Absent) :
        key \in {JStr(<<"a">>), JStr(<<"a", "|", "b">>)},
        version \in {JStr(<<"v">>), JStr(<<"b", "|", "v">>)}}

\* if _search_semaphore is None or _search_semaphore_loop_id != loop_id
NeedsNewSemaphore(value, semaphore_loop_id, current_loop_id) ==
    value = -1 \/ semaphore_loop_id # current_loop_id

LoopInit ==
    /\ running_loop = 1
    /\ loop_id \in Addresses
    /\ search_semaphore = -1
    /\ _search_semaphore_loop_id = "none"
    /\ semObject = NoObject
    /\ _azure_client = NoClient
    /\ _azure_client_key = NoKey
    /\ _azure_client_loop_id = "none"
    /\ clientObject = NoObject
    /\ permitsOut = 0
    /\ lastCall = [n |-> 0, fn |-> "none"]
    /\ invocations = << >>

\* The variables of the other specifications that the calls leave alone.
loopRest == <<batchVars, arbVars, agentVars, entryVars, searchPc, job,
              searchResult, gatewayCall, provider, config, clientAtCall, llmPc,
              attempts, elapsed, llmReturn, permitVars, invocations>>

\* _get_search_semaphore() under the running loop.
GetSemaphoreCall ==
    /\ lastCall.n < MaxCalls
    /\ lastCall' = [n |-> lastCall.n + 1, fn |-> "semaphore"]
    /\ IF NeedsNewSemaphore(search_semaphore, _search_semaphore_loop_id, loop_id)
       THEN /\ search_semaphore' = _MAX_CONCURRENT_SEARCHES
            /\ _search_semaphore_loop_id' = loop_id
            /\ semObject' = [n |-> semObject.n + 1, loop |-> running_loop]
            /\ permitsOut' = 0
       ELSE UNCHANGED <<search_semaphore, _search_semaphore_loop_id, semObject,
                        permitsOut>>
    /\ UNCHANGED <<running_loop, loop_id, _azure_client, _azure_client_key,
                   _azure_client_loop_id, clientObject, loopRest>>

\* async with sem: a caller takes a permit of the semaphore it was handed,
\* and gives it back.
PermitAcquire ==
    /\ search_semaphore > 0
    /\ lastCall.fn = "semaphore"
    /\ search_semaphore' = search_semaphore - 1
    /\ permitsOut' = permitsOut + 1
    /\ UNCHANGED <<running_loop, loop_id, _search_semaphore_loop_id, semObject,
                   _azure_client, _azure_client_key, _azure_client_loop_id,
                   clientObject, lastCall, loopRest>>

PermitRelease ==
    /\ permitsOut > 0
    /\ search_semaphore' = search_semaphore + 1
    /\ permitsOut' = permitsOut - 1
    /\ UNCHANGED <<running_loop, loop_id, _search_semaphore_loop_id, semObject,
                   _azure_client, _azure_client_key, _azure_client_loop_id,
                   clientObject, lastCall, loopRest>>

\* _get_azure_client(cfg) under the running loop.
GetClientCall(cfg) ==
    /\ lastCall.n < MaxCalls
    /\ lastCall' = [n |-> lastCall.n + 1, fn |-> "client", cfg |-> cfg]
    /\ IF NeedsRebuildUnder(cfg, loop_id)
       THEN /\ _azure_client' = Client(cfg)
            /\ _azure_client_key' = CacheKey(cfg)
            /\ _azure_client_loop_id' = loop_id
            /\ clientObject' = [n |-> clientObject.n + 1, loop |-> running_loop,
                                settings |-> Settings(cfg)]
       ELSE UNCHANGED <<_azure_client, _azure_client_key, _azure_client_loop_id,
                        clientObject>>
    /\ UNCHANGED <<running_loop, loop_id, search_semaphore,
                   _search_semaphore_loop_id, semObject, permitsOut, loopRest>>

\* asyncio.run returns (its loop cancels the tasks left, which give their
\* permits back, and is closed) and the next asyncio.run makes a new loop, at
\* some address.
LoopRestart(address) ==
    /\ running_loop < MaxLoops
    /\ running_loop' = running_loop + 1
    /\ loop_id' = address
    /\ search_semaphore' = search_semaphore + permitsOut
    /\ permitsOut' = 0
    /\ lastCall' = [lastCall EXCEPT !.fn = "none"]
    /\ UNCHANGED <<_search_semaphore_loop_id, semObject, _azure_client,
                   _azure_client_key, _azure_client_loop_id, clientObject,
                   loopRest>>

LoopsNext ==
    \/ GetSemaphoreCall
    \/ PermitAcquire
    \/ PermitRelease
    \/ \E cfg \in LoopConfigs : GetClientCall(cfg)
    \/ \E address \in Addresses : LoopRestart(address)

InitLoops ==
    /\ LoopInit
    /\ BatchIdle /\ ArbIdle /\ AgentIdle /\ EntryIdle
    /\ searchPc = << >> /\ job = << >> /\ searchResult = << >> /\ gatewayCall = << >>
    /\ provider = << >> /\ config = << >> /\ clientAtCall = << >>
    /\ llmPc = "idle" /\ attempts = << >> /\ elapsed = 0 /\ llmReturn = << >>
    /\ PermitIdle
SpecLoops == InitLoops /\ [][LoopsNext]_vars

\* ------------------------------------------------- claims on the two getters
Called(fn) == lastCall'.n # lastCall.n /\ lastCall'.fn = fn

\* C28: over any sequence of _get_azure_client calls the cached client is
\* reused exactly when the endpoint, the credential, the API version and the
\* running event loop are those it was constructed with; otherwise a new
\* client is constructed from the settings of the call and replaces it; after
\* every call the cached key and loop id are those of the call.
C28_ClientReusedExactlyWhenSame ==
    [][Called("client") =>
         LET cfg == lastCall'.cfg
             same == /\ clientObject # NoObject
                     /\ clientObject.settings = Settings(cfg)
                     /\ clientObject.loop = running_loop
         IN  /\ IF same THEN clientObject' = clientObject
                ELSE /\ clientObject'.n = clientObject.n + 1
                     /\ clientObject'.settings = Settings(cfg)
                     /\ clientObject'.loop = running_loop
             /\ _azure_client_key' = CacheKey(cfg)
             /\ _azure_client_loop_id' = loop_id]_vars

\* C29: the calls of _get_search_semaphore made under one event loop all
\* return the same semaphore, and the first call under another loop creates
\* a new semaphore with all 4 permits free, which replaces the old one.
C29_SemaphorePerLoop ==
    [][Called("semaphore") =>
         IF semObject # NoObject /\ semObject.loop = running_loop
         THEN semObject' = semObject /\ search_semaphore' = search_semaphore
         ELSE /\ semObject'.n = semObject.n + 1
              /\ semObject'.loop = running_loop
              /\ search_semaphore' = _MAX_CONCURRENT_SEARCHES]_vars

\* ================================== concurrent Azure invocations in one loop
\* Several call_llm invocations of the Azure provider run as tasks of one
\* event loop, each with a configuration of its own. _call_azure takes its
\* client from _get_azure_client once, before its first await, and sends both
\* requests through it.
ClientConfigs ==
    {[cfg EXCEPT !["azure_deployment"] = JStr(<<"g", "p", "t", "-", "4">>)] :
        cfg \in LoopConfigs}
Invocations == 1..MaxInvocations
Invoked(cfg) == [cfg |-> cfg, pc |-> "called", client |-> NoObject, sent |-> << >>]

ClientsInit ==
    /\ running_loop = 1
    /\ loop_id \in Addresses
    /\ search_semaphore = -1
    /\ _search_semaphore_loop_id = "none"
    /\ semObject = NoObject
    /\ _azure_client = NoClient
    /\ _azure_client_key = NoKey
    /\ _azure_client_loop_id = "none"
    /\ clientObject = NoObject
    /\ permitsOut = 0
    /\ lastCall = [n |-> 0, fn |-> "none"]
    /\ invocations \in [Invocations -> {Invoked(cfg) : cfg \in ClientConfigs}]

clientsRest == <<batchVars, arbVars, searchVars, agentVars, entryVars, permitVars,
                 provider, config, clientAtCall, llmPc, attempts, elapsed,
                 llmReturn, running_loop, loop_id, _search_semaphore_loop_id,
                 semObject, permitsOut, lastCall>>

\* The client a request of the invocation goes through.
RequestClient(inv) == inv.client
Request(inv, shape) == [shape |-> shape, client |-> RequestClient(inv)]

\* _call_azure up to its first await: the configuration check and
\* client = _get_azure_client(config), in one step of the loop.
AzureInvoked(i) ==
    LET inv == invocations[i] IN
    /\ inv.pc = "called"
    /\ AllPresent(inv.cfg, AzureRequired)
    /\ IF NeedsRebuildUnder(inv.cfg, loop_id)
       THEN /\ _azure_client' = Client(inv.cfg)
            /\ _azure_client_key' = CacheKey(inv.cfg)
            /\ _azure_client_loop_id' = loop_id
            /\ clientObject' = [n |-> clientObject.n + 1, loop |-> running_loop,
                                settings |-> Settings(inv.cfg)]
       ELSE UNCHANGED <<_azure_client, _azure_client_key, _azure_client_loop_id,
                        clientObject>>
    /\ invocations' = [invocations EXCEPT ![i].pc = "responses",
                                          ![i].client = clientObject']
    /\ UNCHANGED clientsRest

\* client.responses.create was awaited and ends as att says.
AzureResponsesEnds(i, att) ==
    LET inv == invocations[i] IN
    /\ inv.pc = "responses"
    /\ invocations' =
          [invocations EXCEPT
              ![i].sent = Append(inv.sent, Request(inv, "responses")),
              ![i].pc = IF FallsBack(att, inv.cfg["azure_deployment"].s)
                        THEN "chat" ELSE "returned"]
    /\ UNCHANGED <<_azure_client, _azure_client_key, _azure_client_loop_id,
                   clientObject, clientsRest>>

\* client.chat.completions.create was awaited and ends.
AzureChatEnds(i) ==
    LET inv == invocations[i] IN
    /\ inv.pc = "chat"
    /\ invocations' =
          [invocations EXCEPT
              ![i].sent = Append(inv.sent, Request(inv, "chat.completions")),
              ![i].pc = "returned"]
    /\ UNCHANGED <<_azure_client, _azure_client_key, _azure_client_loop_id,
                   clientObject, clientsRest>>

ClientsNext ==
    \/ \E i \in Invocations : AzureInvoked(i)
    \/ \E i \in Invocations, att \in Outcomes : AzureResponsesEnds(i, att)
    \/ \E i \in Invocations : AzureChatEnds(i)

InitClients ==
    /\ ClientsInit
    /\ BatchIdle /\ ArbIdle /\ AgentIdle /\ EntryIdle
    /\ searchPc = << >> /\ job = << >> /\ searchResult = << >> /\ gatewayCall = << >>
    /\ provider = << >> /\ config = << >> /\ clientAtCall = << >>
    /\ llmPc = "idle" /\ attempts = << >> /\ elapsed = 0 /\ llmReturn = << >>
    /\ PermitIdle
SpecClients == InitClients /\ [][ClientsNext]_vars

\* C39: in every interleaving of the Azure invocations of one event loop,
\* those with different configurations included, each request of an
\* invocation goes through a client constructed from the endpoint, the
\* credential and the API version of that invocation's own configuration.
C39_OwnClient ==
    \A i \in Invocations :
        \A k \in 1..Len(invocations[i].sent) :
            invocations[i].sent[k].client.settings = Settings(invocations[i].cfg)

\* ================================================= claim extraction and entry
\* The Run Analysis handler of main.py: run_factual_claim_extractor, then the
\* batch when the extraction passes the handler's test, then the display.
\* Texts here are sequences of segments, like the responses.
Text(s) == [k |-> "text", s |-> s]
JArray(items) == [t |-> "array", items |-> items]
JDict == [t |-> "dict"]
ErrorMarker == Text("Error parsing claims. Raw output: ")
\* A text call_llm returns for a failure; it is not JSON.
GatewayError == [k |-> "garbage", s |-> "Azure Error: Request timed out after 30s"]

\* claims = json.loads(clean_resp)
Parsed(clean) == IF clean[1].k = "object" THEN JDict ELSE clean[1].v
\* len(claims) raises TypeError on a number, a boolean and None.
LenRaises(v) == v.t \notin {"array", "dict", "str"}

\* return ["Error parsing claims. Raw output: " + clean_resp]
ParseFailureReturnMutant(clean) == JArray(<<JStr(clean)>>)
ParseFailureReturn(clean) == JArray(<<JStr(<<ErrorMarker>> \o clean)>>)

\* run_factual_claim_extractor from the response of call_llm on.
RunExtractor(response) ==
    LET clean == CleanResponse(response)
    IN  IF LoadsRaises(clean) \/ LenRaises(Parsed(clean))
        THEN ParseFailureReturn(clean)
        ELSE Parsed(clean)

\* claims[0].startswith("Error")
StartsWithError(text) ==
    text # << >> /\ text[1].k = "text"
        /\ text[1].s \in {"Error", "Error parsing claims. Raw output: "}

\* The handler's test of the extraction: a list, not empty, whose first
\* element is a string that does not start with "Error".
ExtractionPasses(v) ==
    /\ v.t = "array"
    /\ Len(v.items) > 0
    /\ v.items[1].t = "str"
    /\ ~StartsWithError(v.items[1].s)

\* The call of batch_process_claims binds its arguments only when every
\* keyword passed is a parameter; else Python raises TypeError at the call.
BatchParameters ==
    {"claims", "report_text", "provider", "config", "max_workers", "on_progress"}
EntryKeywords == {"on_progress", "source_metadata"}
BatchCallRaises == ~(EntryKeywords \subseteq BatchParameters)

NoneValue == JNull
NoError == [t |-> "none"]
Raised(name) == [t |-> "exception", name |-> name]

ExtTexts == {<<Text("a")>>, <<Text("b")>>, <<Text("Error"), Text("s of 2020")>>}
ExtItems == {JStr(text) : text \in ExtTexts} \cup {JInt(1)}
ExtArrays == {JArray(items) : items \in UNION {[1..n -> ExtItems] : n \in 0..MaxExtracted}}
ExtPayloads ==
    {Garbage, GatewayError, Value(JInt(3)), Value(JNull), Value(JStr(<<Text("a")>>)),
     Object(EmptyObject)} \cup {Value(a) : a \in ExtArrays}
ExtResponses ==
    {<< >>} \cup {<<payload>> : payload \in ExtPayloads}
            \cup {<<FenceJson, payload, Fence>> : payload \in ExtPayloads}
notEntryVars ==
    <<batchVars, arbVars, searchVars, agentVars, llmVars, loopVars, permitVars>>

EntryInit ==
    /\ entryPc = "extracting"
    /\ extResponse \in ExtResponses
    /\ extracted = NoneValue
    /\ batchInvoked = FALSE
    /\ _results_collector = << >>
    /\ claims = NoneValue
    /\ all_results = NoneValue
    /\ pipeline_err = NoError
    /\ shown = [status |-> "running"]
    /\ analysis_results = << >>

\* run_factual_claim_extractor returns to _run_full_pipeline.
ExtractorReturns ==
    /\ entryPc = "extracting"
    /\ entryPc' = "extracted"
    /\ extracted' = RunExtractor(extResponse)
    /\ UNCHANGED <<extResponse, batchInvoked, _results_collector, claims,
                   all_results, pipeline_err, shown, analysis_results, notEntryVars>>

\* call_llm raises in the extractor: asyncio.run raises and the handler's
\* except clause takes over.
ExtractorRaises ==
    /\ entryPc = "extracting"
    /\ entryPc' = "ran"
    /\ pipeline_err' = Raised("ValueError")
    /\ claims' = JArray(<< >>)
    /\ all_results' = NoneValue
    /\ UNCHANGED <<extResponse, extracted, batchInvoked, _results_collector, shown,
                   analysis_results, notEntryVars>>

\* The rest of _run_full_pipeline and of asyncio.run: the batch runs when the
\* extraction passes the test. A batch that runs reports done of its
\* pipelines through on_progress and returns all its records, or none when it
\* timed out.
RunBatch(done, timedOut) ==
    /\ entryPc = "extracted"
    /\ entryPc' = "ran"
    /\ IF ~ExtractionPasses(extracted)
       THEN /\ claims' = extracted
            /\ all_results' = NoneValue
            /\ UNCHANGED <<batchInvoked, _results_collector, pipeline_err>>
       ELSE IF BatchCallRaises
       THEN /\ pipeline_err' = Raised("TypeError")
            /\ claims' = JArray(<< >>)
            /\ all_results' = NoneValue
            /\ UNCHANGED <<batchInvoked, _results_collector>>
       ELSE /\ batchInvoked' = TRUE
            /\ done \in 0..Len(extracted.items)
            /\ timedOut \/ done = Len(extracted.items)
            /\ _results_collector' = [i \in 1..done |-> [claim |-> extracted.items[i]]]
            /\ claims' = extracted
            /\ all_results' =
                  JArray(IF timedOut THEN << >>
                         ELSE [i \in 1..Len(extracted.items) |->
                                  [claim |-> extracted.items[i]]])
            /\ UNCHANGED pipeline_err
    /\ UNCHANGED <<extResponse, extracted, shown, analysis_results, notEntryVars>>

\* if all_results is not None: ... else: ...
Report ==
    /\ entryPc = "ran"
    /\ entryPc' = "reported"
    /\ IF all_results # NoneValue
       THEN /\ shown' = [status |-> "complete", total_claims |-> Len(claims.items)]
            /\ analysis_results' =
                  IF all_results.items # << >> THEN all_results.items
                  ELSE _results_collector
       ELSE /\ shown' = [status |-> "error", output |-> claims]
            /\ UNCHANGED analysis_results
    /\ UNCHANGED <<extResponse, extracted, batchInvoked, _results_collector, claims,
                   all_results, pipeline_err, notEntryVars>>

EntryNext ==
    \/ ExtractorReturns
    \/ ExtractorRaises
    \/ \E done \in 0..MaxExtracted, timedOut \in BOOLEAN : RunBatch(done, timedOut)
    \/ Report

InitEntry ==
    EntryInit /\ BatchIdle /\ ArbIdle /\ SearchIdle /\ AgentIdle /\ LlmIdle /\ LoopIdle
        /\ PermitIdle
SpecEntry == InitEntry /\ [][EntryNext]_vars

\* ------------------------------------- claims on claim extraction and entry
ExtractorReturned == extracted # NoneValue
\* The response without its code fences, and whether that is JSON at all.
Payload(response) == SelectSeq(response, LAMBDA seg : seg.k # "fence")
NotParseable(response) ==
    Len(Payload(response)) # 1 \/ Payload(response)[1].k = "garbage"
Contains(text, part) ==
    \E i \in 0..(Len(text) - Len(part)) : SubSeq(text, i + 1, i + Len(part)) = part
ErrorMarkedList(v) ==
    /\ v.t = "array"
    /\ Len(v.items) = 1
    /\ v.items[1].t = "str"
    /\ v.items[1].s # << >>
    /\ v.items[1].s[1] = ErrorMarker

C20_AbortOrDeliver ==
    (entryPc = "reported" /\ ExtractorReturned) =>
        IF \/ extracted.t # "array"
           \/ extracted.items = << >>
           \/ ErrorMarkedList(extracted)
        THEN /\ ~batchInvoked
             /\ shown = [status |-> "error", output |-> extracted]
        ELSE /\ shown.status = "complete"
             /\ Len(analysis_results) = Len(extracted.items)

\* C21: the batch call the entry point makes after an extraction of at least
\* one claim, with claims, report text, provider, config, on_progress and
\* source_metadata, enters batch_process_claims, raises nothing and returns a
\* list of records.
C21_BatchCallReturnsList ==
    (entryPc \in {"ran", "reported"} /\ ExtractorReturned
        /\ ExtractionPasses(extracted)) =>
        /\ batchInvoked
        /\ pipeline_err = NoError
        /\ all_results # NoneValue
        /\ all_results.t = "array"

====
